---- MODULE Spec2Model ----
(***************************************************************************)
(* Model of the publish/subscribe broker of src/src/pubsub_ws.py: the      *)
(* Broker class over its three SQLite tables, the POST /publish route, the *)
(* GET /clients, /messages and /consumptions routes, and the Socket.IO     *)
(* handlers (subscribe, consumed, disconnect).                             *)
(***************************************************************************)
EXTENDS Integers, Sequences, FiniteSets, TLC

(***************************************************************************)
(* Bounds of the model.                                                    *)
(***************************************************************************)
MaxTime == 1
MaxRows == 2
MaxFaults == 1

(* Clock ticks per second: time.time() is a float, the confirmation id     *)
(* truncates it to whole seconds with int().                               *)
TicksPerSecond == 2
MaxInbox == 2
MaxOutbox == 2

Sids == {"s1", "s2"}

(***************************************************************************)
(* Python values.  A value in payload position is a tagged record; the     *)
(* scalar request fields (topic, message_id, producer, consumer) are       *)
(* strings, with None for a key that data.get() did not find.              *)
(***************************************************************************)
None == "<None>"

PyVal(kind, s, n, items) == [kind |-> kind, s |-> s, n |-> n, items |-> items]
PyNone == PyVal("none", "", 0, <<>>)
PyStr(s) == PyVal("str", s, 0, <<>>)
PyInt(n) == PyVal("int", "", n, <<>>)
PyBool(b) == PyVal("bool", "", IF b THEN 1 ELSE 0, <<>>)
PyDict(items) == PyVal("dict", "", 0, items)
(* Filler for an event field the event does not carry. *)
Absent == PyVal("absent", "", 0, <<>>)

(* bool(v) of a payload value, as all([...]) evaluates it. *)
Truthy(v) ==
  CASE v.kind = "none" -> FALSE
    [] v.kind = "str" -> v.s /= ""
    [] v.kind = "int" -> v.n /= 0
    [] v.kind = "bool" -> v.n = 1
    [] v.kind = "dict" -> v.items /= <<>>
    [] OTHER -> FALSE

(* bool(x) of a scalar request field. *)
TruthyField(x) == x /= None /\ x /= ""

(* str(x) of a scalar request field: str(None) is the text "None". *)
StrField(x) == IF x = None THEN "None" ELSE x

RECURSIVE ReprItems(_, _)
ReprItems(items, i) ==
  IF i > Len(items) THEN ""
  ELSE (IF i > 1 THEN ", " ELSE "")
       \o "'" \o items[i][1] \o "': '" \o items[i][2] \o "'"
       \o ReprItems(items, i + 1)

(* str(v) of a payload value, a Python string. *)
StrVal(v) ==
  CASE v.kind = "none" -> PyStr("None")
    [] v.kind = "str" -> v
    [] v.kind = "int" -> PyStr(ToString(v.n))
    [] v.kind = "bool" -> PyStr(IF v.n = 1 THEN "True" ELSE "False")
    [] v.kind = "dict" -> PyStr("{" \o ReprItems(v.items, 1) \o "}")
    [] OTHER -> v

(***************************************************************************)
(* json.dumps / json.loads.  JSON text is its sequence of tokens.          *)
(***************************************************************************)
Tok(tt, s, n) == [tt |-> tt, s |-> s, n |-> n]

RECURSIVE DumpItems(_, _)
DumpItems(items, i) ==
  IF i > Len(items) THEN <<>>
  ELSE (IF i > 1 THEN <<Tok("punct", ",", 0)>> ELSE <<>>)
       \o <<Tok("string", items[i][1], 0), Tok("punct", ":", 0),
            Tok("string", items[i][2], 0)>>
       \o DumpItems(items, i + 1)

json_dumps(v) ==
  CASE v.kind = "none" -> <<Tok("literal", "null", 0)>>
    [] v.kind = "bool" ->
         <<Tok("literal", IF v.n = 1 THEN "true" ELSE "false", 0)>>
    [] v.kind = "int" -> <<Tok("number", "", v.n)>>
    [] v.kind = "str" -> <<Tok("string", v.s, 0)>>
    [] v.kind = "dict" ->
         <<Tok("punct", "{", 0)>> \o DumpItems(v.items, 1)
           \o <<Tok("punct", "}", 0)>>
    [] OTHER -> <<>>

RECURSIVE LoadItems(_, _)
LoadItems(toks, i) ==
  IF i > Len(toks) \/ (toks[i].tt = "punct" /\ toks[i].s = "}") THEN <<>>
  ELSE IF toks[i].tt = "punct" /\ toks[i].s = "," THEN LoadItems(toks, i + 1)
  ELSE << <<toks[i].s, toks[i + 2].s>> >> \o LoadItems(toks, i + 3)

json_loads(toks) ==
  LET h == toks[1] IN
  CASE h.tt = "literal" /\ h.s = "null" -> PyNone
    [] h.tt = "literal" /\ h.s = "true" -> PyBool(TRUE)
    [] h.tt = "literal" /\ h.s = "false" -> PyBool(FALSE)
    [] h.tt = "number" -> PyInt(h.n)
    [] h.tt = "string" -> PyStr(h.s)
    [] h.tt = "punct" /\ h.s = "{" -> PyDict(LoadItems(toks, 2))
    [] OTHER -> Absent

(***************************************************************************)
(* State.                                                                  *)
(***************************************************************************)
VARIABLES
  subscriptions,  \* table subscriptions(sid, consumer, topic, connected_at)
  messages,       \* table messages(topic, message_id, message, producer, timestamp)
  consumptions,   \* table consumptions(consumer, topic, message_id, message, timestamp)
  connected,      \* sessions with a live Socket.IO connection
  closed,         \* sessions whose disconnect has been handled
  rooms,          \* room membership: pairs <<sid, room>>
  now,            \* the clock read by time.time()
  emits,          \* the events emitted by the last handler step
  last,           \* the last step: its request and its outcome
  failures,       \* store operations that have failed so far
  client,         \* one PubSubClient instance and its socketio.Client
  tasks,          \* the handlers suspended at an emit
  broker          \* the Broker instance and its store connections

vars == <<subscriptions, messages, consumptions, connected, closed, rooms,
          now, emits, last, failures, client, tasks, broker>>

(* Where a sqlite3.Error strikes inside one Broker operation. *)
Faults == {"none", "connect", "execute", "commit"}

(***************************************************************************)
(* Notification fan-out.                                                   *)
(***************************************************************************)
Broadcast == "<broadcast>"

(* Variant: an emit reaches every session of the room, connected or not,   *)
(* and a broadcast every session that ever existed.                        *)
RecipientsEver(to, conn, rms) ==
  IF to = Broadcast THEN Sids
  ELSE {s \in Sids : s = to \/ <<s, to>> \in rms}

(* Sessions reached by socketio.emit(..., to=to): every connected session  *)
(* without `to`, else the members of that room (a session is always a      *)
(* member of the room named by its own sid).                               *)
Recipients(to, conn, rms) ==
  IF to = Broadcast THEN conn
  ELSE {s \in conn : s = to \/ <<s, to>> \in rms}

Event(event, to, recipients, consumer, topic, message_id, message, producer, timestamp) ==
  [event |-> event, to |-> to, recipients |-> recipients,
   consumer |-> consumer, topic |-> topic, message_id |-> message_id,
   message |-> message, producer |-> producer, timestamp |-> timestamp]

NoTime == -1

(***************************************************************************)
(* The store schema (migrations/001_add_message_id_and_producer.sql).      *)
(***************************************************************************)
(* subscriptions: unique on (sid, topic). *)
SubscriptionKey(row) == <<row.sid, row.topic>>

(* messages: message_id is unique. *)
MessageKeyConflict(msgs, row) ==
  \E i \in DOMAIN msgs : msgs[i].message_id = row.message_id

(* Variant: the uncommitted work is kept. *)
RollbackNothing(committed, working) == working

(* conn.rollback(): the uncommitted work of the transaction is discarded. *)
Rollback(committed, working) == committed

(***************************************************************************)
(* Broker.register_subscription                                            *)
(***************************************************************************)
(* INSERT OR REPLACE INTO subscriptions: the conflicting row is deleted,   *)
(* the new row is appended.                                                *)
(* Variant: INSERT OR IGNORE, the conflicting row stays. *)
InsertOrIgnore(subs, row) ==
  IF \E i \in DOMAIN subs : SubscriptionKey(subs[i]) = SubscriptionKey(row)
  THEN subs ELSE subs \o <<row>>

InsertOrReplace(subs, row) ==
  SelectSeq(subs, LAMBDA r : SubscriptionKey(r) /= SubscriptionKey(row))
    \o <<row>>

(* Variant: only the first subscription of a session to a topic is         *)
(* announced.                                                              *)
register_subscription_first(subs, conn, sid, consumer, topic, t1, t2, fault) ==
  LET row == [sid |-> sid, consumer |-> consumer, topic |-> topic,
              connected_at |-> t1]
      ok == fault = "none"
      known == \E i \in DOMAIN subs :
                 SubscriptionKey(subs[i]) = SubscriptionKey(row)
  IN [subscriptions |-> IF ok THEN InsertOrReplace(subs, row) ELSE subs,
      emits |-> IF ok /\ ~known
                THEN <<Event("new_client", Broadcast,
                             Recipients(Broadcast, conn, {}), consumer, topic,
                             None, Absent, None, t2)>>
                ELSE <<>>,
      ok |-> ok]

register_subscription(subs, conn, sid, consumer, topic, t1, t2, fault) ==
  LET row == [sid |-> sid, consumer |-> consumer, topic |-> topic,
              connected_at |-> t1]
      working == IF fault \in {"connect", "execute"} THEN subs
                 ELSE InsertOrReplace(subs, row)
      ok == fault = "none"
  IN [subscriptions |-> IF ok THEN working ELSE Rollback(subs, working),
      emits |-> IF ok
                THEN <<Event("new_client", Broadcast,
                             Recipients(Broadcast, conn, {}), consumer, topic,
                             None, Absent, None, t2)>>
                ELSE <<>>,
      ok |-> ok]

(***************************************************************************)
(* Broker.unregister_client                                                *)
(***************************************************************************)
(* Variant: SELECT consumer, topic FROM subscriptions, for every session. *)
ClientDataAll(subs, sid) == subs

(* Variant: only one row of the session is deleted. *)
DeleteFirstOfSession(subs, sid) ==
  IF \E i \in DOMAIN subs : subs[i].sid = sid
  THEN LET i == CHOOSE i \in DOMAIN subs :
                  subs[i].sid = sid /\ \A j \in 1..(i - 1) : subs[j].sid /= sid
       IN SubSeq(subs, 1, i - 1) \o SubSeq(subs, i + 1, Len(subs))
  ELSE subs

(* Variant: only the first row is announced. *)
DisconnectedEventsFirst(client_data, conn) ==
  IF client_data = <<>> THEN <<>>
  ELSE <<Event("client_disconnected", Broadcast,
               Recipients(Broadcast, conn, {}), client_data[1].consumer,
               client_data[1].topic, None, Absent, None, NoTime)>>

(* Variant: the rows of the consumers of the session are deleted, whatever *)
(* their session.                                                          *)
DeleteConsumersOfSession(subs, sid) ==
  LET gone == {subs[i].consumer : i \in {k \in DOMAIN subs : subs[k].sid = sid}}
  IN SelectSeq(subs, LAMBDA r : r.consumer \notin gone)

(* SELECT consumer, topic FROM subscriptions WHERE sid = ? *)
ClientData(subs, sid) == SelectSeq(subs, LAMBDA r : r.sid = sid)

(* DELETE FROM subscriptions WHERE sid = ? *)
DeleteSession(subs, sid) == SelectSeq(subs, LAMBDA r : r.sid /= sid)

(* for consumer, topic in client_data: socketio.emit("client_disconnected") *)
DisconnectedEvents(client_data, conn) ==
  [i \in 1..Len(client_data) |->
     Event("client_disconnected", Broadcast, Recipients(Broadcast, conn, {}),
           client_data[i].consumer, client_data[i].topic, None, Absent, None,
           NoTime)]

unregister_client(subs, conn, sid, fault) ==
  LET client_data == ClientData(subs, sid)
      working == IF fault \in {"connect", "execute"} THEN subs
                 ELSE DeleteSession(subs, sid)
      ok == fault = "none"
  IN [subscriptions |-> IF ok THEN working ELSE Rollback(subs, working),
      emits |-> IF ok THEN DisconnectedEvents(client_data, conn) ELSE <<>>,
      ok |-> ok]

(***************************************************************************)
(* Broker.save_message                                                     *)
(***************************************************************************)
(* Variant: a stored message_id is replaced by the new row. *)
save_message_replace(msgs, conn, topic, message_id, message, producer, t, fault) ==
  LET row == [topic |-> topic, message_id |-> message_id,
              message |-> json_dumps(message), producer |-> producer,
              timestamp |-> t]
      ok == fault = "none"
  IN [messages |->
        IF ok
        THEN SelectSeq(msgs, LAMBDA r : r.message_id /= message_id)
               \o <<row>>
        ELSE msgs,
      emits |-> IF ok
                THEN <<Event("new_message", Broadcast,
                             Recipients(Broadcast, conn, {}), None, topic,
                             message_id, message, producer, t)>>
                ELSE <<>>,
      ok |-> ok]

(* Variant: the committed insert is not announced. *)
save_message_silent(msgs, conn, topic, message_id, message, producer, t, fault) ==
  LET row == [topic |-> topic, message_id |-> message_id,
              message |-> json_dumps(message), producer |-> producer,
              timestamp |-> t]
      ok == fault = "none" /\ ~MessageKeyConflict(msgs, row)
  IN [messages |-> IF ok THEN msgs \o <<row>> ELSE msgs,
      emits |-> <<>>,
      ok |-> ok]

(* Variant: the row is inserted whether or not its message_id is stored. *)
save_message_again(msgs, conn, topic, message_id, message, producer, t, fault) ==
  LET row == [topic |-> topic, message_id |-> message_id,
              message |-> json_dumps(message), producer |-> producer,
              timestamp |-> t]
      ok == fault = "none"
  IN [messages |-> IF ok THEN msgs \o <<row>> ELSE msgs,
      emits |-> IF ok
                THEN <<Event("new_message", Broadcast,
                             Recipients(Broadcast, conn, {}), None, topic,
                             message_id, message, producer, t)>>
                ELSE <<>>,
      ok |-> ok]

save_message(msgs, conn, topic, message_id, message, producer, t, fault) ==
  LET row == [topic |-> topic, message_id |-> message_id,
              message |-> json_dumps(message), producer |-> producer,
              timestamp |-> t]
      integrity == MessageKeyConflict(msgs, row)
      working == IF fault \in {"connect", "execute"} \/ integrity THEN msgs
                 ELSE msgs \o <<row>>
      ok == fault = "none" /\ ~integrity
  IN [messages |-> IF ok THEN working ELSE Rollback(msgs, working),
      emits |-> IF ok
                THEN <<Event("new_message", Broadcast,
                             Recipients(Broadcast, conn, {}), None, topic,
                             message_id, message, producer, t)>>
                ELSE <<>>,
      ok |-> ok]

(***************************************************************************)
(* Broker.save_consumption                                                 *)
(***************************************************************************)
(* Variant: the committed row is not announced. *)
save_consumption_quiet(cons, conn, consumer, topic, message_id, message, t, fault) ==
  LET row == [consumer |-> consumer, topic |-> topic,
              message_id |-> message_id, message |-> json_dumps(message),
              timestamp |-> t]
      ok == fault = "none"
  IN [consumptions |-> IF ok THEN cons \o <<row>> ELSE cons,
      emits |-> <<>>,
      ok |-> ok]

(* Variant: one row is kept per message_id. *)
save_consumption_dedup(cons, conn, consumer, topic, message_id, message, t, fault) ==
  LET row == [consumer |-> consumer, topic |-> topic,
              message_id |-> message_id, message |-> json_dumps(message),
              timestamp |-> t]
      ok == fault = "none"
  IN [consumptions |->
        IF ok
        THEN SelectSeq(cons, LAMBDA r : r.message_id /= message_id)
               \o <<row>>
        ELSE cons,
      emits |-> IF ok
                THEN <<Event("new_consumption", Broadcast,
                             Recipients(Broadcast, conn, {}), consumer, topic,
                             message_id, message, None, t)>>
                ELSE <<>>,
      ok |-> ok]

(* Variant: the notification carries a second reading of the clock. *)
save_consumption_reread(cons, conn, consumer, topic, message_id, message, t, fault) ==
  LET row == [consumer |-> consumer, topic |-> topic,
              message_id |-> message_id, message |-> json_dumps(message),
              timestamp |-> t]
      ok == fault = "none"
  IN [consumptions |-> IF ok THEN cons \o <<row>> ELSE cons,
      emits |-> IF ok
                THEN <<Event("new_consumption", Broadcast,
                             Recipients(Broadcast, conn, {}), consumer, topic,
                             message_id, message, None, t + 1)>>
                ELSE <<>>,
      ok |-> ok]

save_consumption(cons, conn, consumer, topic, message_id, message, t, fault) ==
  LET row == [consumer |-> consumer, topic |-> topic,
              message_id |-> message_id, message |-> json_dumps(message),
              timestamp |-> t]
      working == IF fault \in {"connect", "execute"} THEN cons
                 ELSE cons \o <<row>>
      ok == fault = "none"
  IN [consumptions |-> IF ok THEN working ELSE Rollback(cons, working),
      emits |-> IF ok
                THEN <<Event("new_consumption", Broadcast,
                             Recipients(Broadcast, conn, {}), consumer, topic,
                             message_id, message, None, t)>>
                ELSE <<>>,
      ok |-> ok]

(***************************************************************************)
(* Broker.get_clients, get_messages, get_consumptions                      *)
(***************************************************************************)
(* Variant: the rows are returned in rowid order. *)
OrderByRowid(rows) == rows

(* ORDER BY timestamp DESC: rows of equal timestamp stay in rowid order. *)
RECURSIVE OrderByTimestampDesc(_)
OrderByTimestampDesc(rows) ==
  IF rows = <<>> THEN <<>>
  ELSE LET i == CHOOSE i \in DOMAIN rows :
                  /\ \A j \in DOMAIN rows : rows[j].timestamp <= rows[i].timestamp
                  /\ \A j \in 1..(i - 1) : rows[j].timestamp < rows[i].timestamp
       IN <<rows[i]>>
            \o OrderByTimestampDesc(SubSeq(rows, 1, i - 1)
                                      \o SubSeq(rows, i + 1, Len(rows)))

(* WHERE message_id IS NOT NULL *)
WithMessageId(rows) == SelectSeq(rows, LAMBDA r : r.message_id /= None)

(* Variant: the rows are returned whatever happened in the store. *)
get_clients_any(subs, fault) ==
  [i \in 1..Len(subs) |->
     [consumer |-> subs[i].consumer, topic |-> subs[i].topic,
      connected_at |-> subs[i].connected_at]]

get_clients(subs, fault) ==
  IF fault /= "none" THEN <<>>
  ELSE [i \in 1..Len(subs) |->
          [consumer |-> subs[i].consumer, topic |-> subs[i].topic,
           connected_at |-> subs[i].connected_at]]

(* Variant: the stored JSON text is returned as it is, without json.loads. *)
get_messages_raw(msgs, fault) ==
  IF fault /= "none" THEN <<>>
  ELSE LET rows == OrderByTimestampDesc(WithMessageId(msgs))
       IN [i \in 1..Len(rows) |->
             [topic |-> rows[i].topic, message_id |-> rows[i].message_id,
              message |-> rows[i].message, producer |-> rows[i].producer,
              timestamp |-> rows[i].timestamp]]

get_messages(msgs, fault) ==
  IF fault /= "none" THEN <<>>
  ELSE LET rows == OrderByTimestampDesc(WithMessageId(msgs))
       IN [i \in 1..Len(rows) |->
             [topic |-> rows[i].topic, message_id |-> rows[i].message_id,
              message |-> json_loads(rows[i].message),
              producer |-> rows[i].producer,
              timestamp |-> rows[i].timestamp]]

get_consumptions(cons, fault) ==
  IF fault /= "none" THEN <<>>
  ELSE LET rows == OrderByTimestampDesc(WithMessageId(cons))
       IN [i \in 1..Len(rows) |->
             [consumer |-> rows[i].consumer, topic |-> rows[i].topic,
              message_id |-> rows[i].message_id,
              message |-> json_loads(rows[i].message),
              timestamp |-> rows[i].timestamp]]

(***************************************************************************)
(* Requests the environment may send.                                      *)
(***************************************************************************)
(* JSON payloads of a request body that are falsy in Python; PyNone is     *)
(* also what data.get() gives for a key the body omits.                    *)
FalsyPayloads == {PyNone, PyInt(0), PyBool(FALSE), PyDict(<<>>)}

(* A scalar field that is omitted, or empty. *)
FalsyFields == {None, ""}

Request(consumer, topic, message_id, message, producer) ==
  [consumer |-> consumer, topic |-> topic, message_id |-> message_id,
   message |-> message, producer |-> producer]

(* Bodies of POST /publish: complete bodies, and a complete body with one  *)
(* field omitted or falsy.                                                 *)
PublishRequests ==
  LET dict == PyDict(<< <<"score", "1-0">> >>)
      good == {Request(None, "sport", "m1", dict, "bot"),
               Request(None, "news", "m1", PyStr("hello"), "bot"),
               Request(None, "sport", "m2", PyStr("hello"), "bot")}
      one == Request(None, "sport", "m1", dict, "bot")
  IN good
     \cup {[one EXCEPT !.topic = x] : x \in FalsyFields}
     \cup {[one EXCEPT !.message_id = None]}
     \cup {[one EXCEPT !.message = x] : x \in FalsyPayloads}
     \cup {[one EXCEPT !.producer = None]}

(* Data of a consumed event, likewise. *)
ConsumedRequests ==
  LET dict == PyDict(<< <<"score", "1-0">> >>)
      good == {Request("alice", "sport", "m1", dict, None),
               Request("bob", "sport", "m1", dict, None)}
      one == Request("alice", "sport", "m1", dict, None)
  IN good
     \cup {[one EXCEPT !.consumer = x] : x \in FalsyFields}
     \cup {[one EXCEPT !.topic = None]}
     \cup {[one EXCEPT !.message_id = None]}
     \cup {[one EXCEPT !.message = x] : x \in {PyNone, PyInt(0)}}

(* Data of a subscribe event, with the session that sends it. *)
SubscribeRequest(sid, consumer, topics) ==
  [sid |-> sid, consumer |-> consumer, topics |-> topics]

SubscribeRequests ==
  {SubscribeRequest("s1", "alice", <<>>),
   SubscribeRequest("s1", "alice", <<"sport">>),
   SubscribeRequest("s1", "alice", <<"sport", "news">>),
   SubscribeRequest("s1", "bob", <<"sport", "sport">>),
   SubscribeRequest("s2", "bob", <<"sport">>),
   SubscribeRequest("s2", "bob", <<"news">>)}

(***************************************************************************)
(* Observation of the last handler step.                                   *)
(***************************************************************************)
(* One Broker call made by a handler: its arguments, the first time.time() *)
(* it read, and whether its transaction was committed.                     *)
Call(op, sid, consumer, topic, message_id, message, producer, t, ok) ==
  [op |-> op, sid |-> sid, consumer |-> consumer, topic |-> topic,
   message_id |-> message_id, message |-> message, producer |-> producer,
   t |-> t, ok |-> ok]

(* The handler, the data of its request, its HTTP status (0 for a session  *)
(* event), and the Broker calls it made.                                   *)
Last(op, sid, q, topics, status, calls) ==
  [op |-> op, sid |-> sid, consumer |-> q.consumer, topic |-> q.topic,
   message_id |-> q.message_id, message |-> q.message,
   producer |-> q.producer, topics |-> topics, status |-> status,
   calls |-> calls]

NoRequest == Request(None, None, None, Absent, None)

Rows(subs, msgs, cons) == Len(subs) + Len(msgs) + Len(cons)

(***************************************************************************)
(* A PubSubClient instance. Three classes of that name exist:              *)
(*   "src"  src/src/client.py                                              *)
(*   "root" src/client.py                                                  *)
(*   "lib"  src/lib/pubsub_client.py                                       *)
(***************************************************************************)
ClientKinds == {"src", "root", "lib"}

(* The observation of the last step of the client: the method or callback, *)
(* the event it was given, the handler invocations it made, the events and *)
(* requests it sent, the sio.disconnect() calls it made, and whether an    *)
(* exception left it.                                                      *)
ClientLog(op, received, handled, sent, disconnects, raised) ==
  [op |-> op, received |-> received, handled |-> handled, sent |-> sent,
   disconnects |-> disconnects, raised |-> raised]

NoLog == ClientLog("none", <<>>, <<>>, <<>>, 0, FALSE)

(* self.consumer, self.topics, self.handlers and self.sio: sio.connected,  *)
(* the session id of the connection, whether the library is reconnecting   *)
(* after a lost connection, the events received and not yet dispatched,    *)
(* the events emitted and not yet handled by the server.                   *)
Client(kind, consumer, topics, handlers, conn, sid, reconnecting, inbox, outbox, log) ==
  [kind |-> kind, consumer |-> consumer, topics |-> topics,
   handlers |-> handlers, connected |-> conn, sid |-> sid,
   reconnecting |-> reconnecting, inbox |-> inbox, outbox |-> outbox,
   log |-> log]

(* No instance was created. *)
NoClient == Client("none", None, <<>>, {}, FALSE, None, FALSE, <<>>, <<>>, NoLog)

(* A Broker instance: whether it was given a test connection, whether that *)
(* connection is open, the connections the Broker opened itself that are   *)
(* open, and the connection its last operation used.                       *)
Broker(test_conn) ==
  [test_conn |-> test_conn, test_open |-> test_conn, open |-> 0, conn |-> None]

ServerInit ==
  /\ subscriptions = <<>>
  /\ messages = <<>>
  /\ consumptions = <<>>
  /\ connected = {}
  /\ closed = {}
  /\ rooms = {}
  /\ now = 0
  /\ emits = <<>>
  /\ last = Last("init", None, NoRequest, <<>>, 0, <<>>)
  /\ failures = 0

(* broker = Broker(DB_FILE_NAME): the deployed Broker opens its own         *)
(* connections.                                                            *)
Init ==
  /\ ServerInit
  /\ client = NoClient
  /\ tasks = {}
  /\ broker = Broker(FALSE)

(* The clock advances. *)
Tick ==
  /\ now < MaxTime
  /\ now' = now + 1
  /\ emits' = <<>>
  /\ last' = Last("tick", None, NoRequest, <<>>, 0, <<>>)
  /\ UNCHANGED <<subscriptions, messages, consumptions, connected, closed,
                 rooms, failures>>

(***************************************************************************)
(* A client connects: the transport gives it a fresh session id.           *)
(***************************************************************************)
Connect(s) ==
  /\ s \notin connected
  /\ s \notin closed
  /\ connected' = connected \cup {s}
  /\ emits' = <<>>
  /\ last' = Last("connect", s, NoRequest, <<>>, 0, <<>>)
  /\ UNCHANGED <<subscriptions, messages, consumptions, closed, rooms,
                 now, failures>>

(***************************************************************************)
(* handle_subscribe                                                        *)
(***************************************************************************)
ConfirmationId(t) == "sub_conf_" \o ToString(t \div TicksPerSecond)

(* Variant: the confirmation is sent to the topic's room. *)
ConfirmationToRoom(sid, conn, rms, topic, t) ==
  Event("message", topic, Recipients(topic, conn, rms), None, topic,
        ConfirmationId(t), PyStr("Subscribed to " \o topic), "server", NoTime)

(* The confirmation sent to the subscribing session alone. *)
Confirmation(sid, conn, rms, topic, t) ==
  Event("message", sid, Recipients(sid, conn, rms), None, topic,
        ConfirmationId(t), PyStr("Subscribed to " \o topic), "server", NoTime)

(* One iteration of `for topic in topics`, from the loop state st: the     *)
(* room is joined, the subscription registered, the confirmation sent.     *)
(* The clock may advance between the two time.time() of the registration.  *)
SubscribeBody(st, conn, s, consumer, topic, fault, adv) ==
  LET t1 == st.now
      t2 == IF fault = "none" /\ adv /\ t1 < MaxTime THEN t1 + 1 ELSE t1
      rms == st.rooms \cup {<<s, topic>>}
      r == register_subscription(st.subscriptions, conn, StrField(s),
                                 StrField(consumer), topic, t1, t2, fault)
  IN [subscriptions |-> r.subscriptions,
      rooms |-> rms,
      now |-> t2,
      emits |-> st.emits \o r.emits
                  \o <<Confirmation(s, conn, rms, topic, t2)>>,
      calls |-> Append(st.calls,
                       Call("register_subscription", StrField(s),
                            StrField(consumer), topic, None, Absent, None,
                            t1, r.ok))]

RECURSIVE SubscribeLoop(_, _, _, _, _, _, _)
SubscribeLoop(st, conn, s, consumer, topics, ch, i) ==
  IF i > Len(topics) THEN st
  ELSE SubscribeLoop(SubscribeBody(st, conn, s, consumer, topics[i],
                                   ch[i][1], ch[i][2]),
                     conn, s, consumer, topics, ch, i + 1)

(* What the environment decides in one iteration: whether and where the   *)
(* store fails, and whether the clock advances.                            *)
Choices == {ch \in Faults \X BOOLEAN : ch[1] /= "none" => ~ch[2]}

LoopStart ==
  [subscriptions |-> subscriptions, rooms |-> rooms, now |-> now,
   emits |-> <<>>, calls |-> <<>>]

(* The whole handler. *)
HandleSubscribe(s, consumer, topics) ==
  /\ s \in connected
  /\ \E ch \in [1..Len(topics) -> Choices] :
       LET st == SubscribeLoop(LoopStart, connected, s, consumer, topics,
                               ch, 1)
           failed == Cardinality({i \in DOMAIN ch : ch[i][1] /= "none"})
       IN /\ failures + failed <= MaxFaults
          /\ failures' = failures + failed
          /\ Rows(st.subscriptions, messages, consumptions) <= MaxRows
          /\ subscriptions' = st.subscriptions
          /\ rooms' = st.rooms
          /\ now' = st.now
          /\ emits' = st.emits
          /\ last' = Last("subscribe", s,
                          Request(consumer, None, None, Absent, None), topics,
                          0, st.calls)
          /\ UNCHANGED <<messages, consumptions, connected, closed>>

(***************************************************************************)
(* handle_disconnect                                                       *)
(***************************************************************************)
(* The failures the environment may still inject. *)
Injectable == IF failures < MaxFaults THEN Faults ELSE {"none"}

Failed(fault) == IF fault = "none" THEN 0 ELSE 1

Disconnect(s) ==
  /\ s \in connected
  /\ \E fault \in Injectable :
       LET others == connected \ {s}
           r == unregister_client(subscriptions, others, s, fault)
       IN /\ failures' = failures + Failed(fault)
          /\ subscriptions' = r.subscriptions
          /\ emits' = r.emits
          /\ connected' = others
          /\ closed' = closed \cup {s}
          /\ rooms' = {p \in rooms : p[1] /= s}
          /\ last' = Last("disconnect", s, NoRequest, <<>>, 0,
                          <<Call("unregister_client", s, None, None, None,
                                 Absent, None, NoTime, r.ok)>>)
          /\ UNCHANGED <<messages, consumptions, now>>

(***************************************************************************)
(* POST /publish                                                           *)
(***************************************************************************)
(* Variant: message_id is not required. *)
PublishValidWithoutId(topic, message_id, message, producer) ==
  /\ TruthyField(topic)
  /\ Truthy(message)
  /\ TruthyField(producer)

(* if not all([topic, message_id, message, producer]) *)
PublishValid(topic, message_id, message, producer) ==
  /\ TruthyField(topic)
  /\ TruthyField(message_id)
  /\ Truthy(message)
  /\ TruthyField(producer)

(* Variant: the message event goes to every connected session. *)
PublishTargetEveryone(topic) == Broadcast

(* Variant: every message event goes to the room of the topic news. *)
PublishTargetNews(topic) == "news"

(* socketio.emit("message", payload, to=topic) *)
PublishTarget(topic) == topic

Publish(topic, message_id, message, producer) ==
  LET q == Request(None, topic, message_id, message, producer) IN
  IF ~PublishValid(topic, message_id, message, producer)
  THEN /\ emits' = <<>>
       /\ last' = Last("publish", None, q, <<>>, 400, <<>>)
       /\ UNCHANGED <<subscriptions, messages, consumptions, connected,
                      closed, rooms, now, failures>>
  ELSE \E fault \in Injectable :
         LET r == save_message(messages, connected, topic, message_id,
                               message, producer, now, fault)
             to == PublishTarget(topic)
             msg == Event("message", to, Recipients(to, connected, rooms),
                          None, topic, message_id, message, producer, NoTime)
         IN /\ failures' = failures + Failed(fault)
            /\ Rows(subscriptions, r.messages, consumptions) <= MaxRows
            /\ messages' = r.messages
            /\ emits' = r.emits \o <<msg>>
            /\ last' = Last("publish", None, q, <<>>, 200,
                            <<Call("save_message", None, None, topic,
                                   message_id, message, producer, now,
                                   r.ok)>>)
            /\ UNCHANGED <<subscriptions, consumptions, connected, closed,
                           rooms, now>>

(***************************************************************************)
(* handle_consumed                                                         *)
(***************************************************************************)
(* Variant: the payload is not examined. *)
ConsumedValidWithoutMessage(consumer, topic, message_id, message) ==
  /\ TruthyField(consumer)
  /\ TruthyField(topic)
  /\ TruthyField(message_id)

(* if not all([consumer, topic, message_id, message]) *)
ConsumedValid(consumer, topic, message_id, message) ==
  /\ TruthyField(consumer)
  /\ TruthyField(topic)
  /\ TruthyField(message_id)
  /\ Truthy(message)

HandleConsumed(consumer, topic, message_id, message) ==
  LET q == Request(consumer, topic, message_id, message, None) IN
  /\ connected /= {}
  /\ IF ~ConsumedValid(consumer, topic, message_id, message)
     THEN /\ emits' = <<>>
          /\ last' = Last("consumed", None, q, <<>>, 0, <<>>)
          /\ UNCHANGED <<subscriptions, messages, consumptions, connected,
                         closed, rooms, now, failures>>
     ELSE \E fault \in Injectable :
            LET r == save_consumption(consumptions, connected,
                                      StrField(consumer), StrField(topic),
                                      StrField(message_id), StrVal(message),
                                      now, fault)
            IN /\ failures' = failures + Failed(fault)
               /\ Rows(subscriptions, messages, r.consumptions) <= MaxRows
               /\ consumptions' = r.consumptions
               /\ emits' = r.emits
               /\ last' = Last("consumed", None, q, <<>>, 0,
                               <<Call("save_consumption", None,
                                      StrField(consumer), StrField(topic),
                                      StrField(message_id), StrVal(message),
                                      None, now, r.ok)>>)
               /\ UNCHANGED <<subscriptions, messages, connected, closed,
                              rooms, now>>

(***************************************************************************)
(* GET /clients, /messages, /consumptions                                  *)
(***************************************************************************)
(* Where a sqlite3.Error strikes inside a read: there is no commit. *)
ReadInjectable == Injectable \ {"commit"}

(* A Broker read made by a route: the list it returned, and whether the    *)
(* store answered.                                                         *)
ReadCall(op, result, ok) ==
  [op |-> op, sid |-> None, consumer |-> None, topic |-> None,
   message_id |-> None, message |-> Absent, producer |-> None, t |-> NoTime,
   ok |-> ok, result |-> result]

(* return jsonify(broker.get_...()): the route answers 200 with the list. *)
Answer(route, op, result, fault) ==
  /\ failures' = failures + Failed(fault)
  /\ emits' = <<>>
  /\ last' = Last(route, None, NoRequest, <<>>, 200,
                  <<ReadCall(op, result, fault = "none")>>)
  /\ UNCHANGED <<subscriptions, messages, consumptions, connected, closed,
                 rooms, now>>

clients_route ==
  \E fault \in ReadInjectable :
    Answer("clients", "get_clients", get_clients(subscriptions, fault), fault)

messages_route ==
  \E fault \in ReadInjectable :
    Answer("messages", "get_messages", get_messages(messages, fault), fault)

consumptions_route ==
  \E fault \in ReadInjectable :
    Answer("consumptions", "get_consumptions",
           get_consumptions(consumptions, fault), fault)

(***************************************************************************)
(* The deployed server: HTTP requests and session events, one handler at a *)
(* time.                                                                   *)
(***************************************************************************)
(* No PubSubClient instance is followed, and every handler runs to its     *)
(* end once started.                                                       *)
ServerOnly == UNCHANGED <<client, tasks, broker>>

Next ==
  \/ Tick /\ ServerOnly
  \/ \E s \in Sids : Connect(s) /\ ServerOnly
  \/ \E q \in SubscribeRequests :
       HandleSubscribe(q.sid, q.consumer, q.topics) /\ ServerOnly
  \/ \E s \in Sids : Disconnect(s) /\ ServerOnly
  \/ \E q \in PublishRequests :
       Publish(q.topic, q.message_id, q.message, q.producer) /\ ServerOnly
  \/ \E q \in ConsumedRequests :
       HandleConsumed(q.consumer, q.topic, q.message_id, q.message)
         /\ ServerOnly
  \/ clients_route /\ ServerOnly
  \/ messages_route /\ ServerOnly
  \/ consumptions_route /\ ServerOnly

Spec == Init /\ [][Next]_vars

(***************************************************************************)
(* The PubSubClient classes against the server.                            *)
(***************************************************************************)
(* An event or request sent by the client. *)
Sent(event, consumer, topics, topic, message_id, message, producer) ==
  [event |-> event, consumer |-> consumer, topics |-> topics,
   topic |-> topic, message_id |-> message_id, message |-> message,
   producer |-> producer]

(* self.sio.emit("subscribe", {"consumer": ..., "topics": self.topics}) *)
SubscribeEvent(c) ==
  Sent("subscribe", c.consumer, c.topics, None, None, Absent, None)

(* self.sio.emit("consumed", {consumer, topic, message_id, message}) *)
ConsumedEvent(c, data) ==
  Sent("consumed", c.consumer, <<>>, data.topic, data.message_id,
       data.message, None)

(* The message events of a server step that reach a session. *)
Delivered(es, sid) ==
  SelectSeq(es, LAMBDA e : e.event = "message" /\ sid \in e.recipients)

(* The client after a step of the server: what was emitted to its session  *)
(* waits for its on_message callback.                                      *)
Receive(c, es) ==
  IF c.connected THEN [c EXCEPT !.inbox = @ \o Delivered(es, c.sid)] ELSE c

ServerUnchanged ==
  UNCHANGED <<subscriptions, messages, consumptions, connected, closed,
              rooms, now, emits, last, failures>>

(* One instance, of any of the three classes, not yet connected. *)
ClientInit ==
  /\ ServerInit
  /\ tasks = {}
  /\ broker = Broker(FALSE)
  /\ \E kind \in ClientKinds, topics \in {<<"sport">>, <<"sport", "news">>} :
       client = Client(kind, "alice", topics, {}, FALSE, None, FALSE, <<>>,
                       <<>>, NoLog)

(* register_handler(topic, handler_func), of the lib class. *)
register_handler(topic) ==
  /\ client.kind = "lib"
  /\ topic \notin client.handlers
  /\ client' = [client EXCEPT
                  !.handlers = @ \cup {topic},
                  !.log = ClientLog("register_handler", <<>>, <<>>, <<>>,
                                    0, FALSE)]
  /\ ServerUnchanged

(* connect() of the src and root classes, start() of the lib class, when   *)
(* sio.connect succeeds: the subscribe event is emitted by connect()       *)
(* itself, or by the on_connect callback of the lib class.                 *)
ClientConnected(s) ==
  /\ client.kind \in ClientKinds
  /\ ~client.connected
  /\ ~client.reconnecting
  /\ Connect(s)
  /\ client' = [client EXCEPT
                  !.connected = TRUE,
                  !.sid = s,
                  !.outbox = Append(@, SubscribeEvent(client)),
                  !.log = ClientLog("connect", <<>>, <<>>,
                                    <<SubscribeEvent(client)>>, 0, FALSE)]

(* ... and when sio.connect raises ConnectionError: only the src class     *)
(* catches it.                                                             *)
ClientConnectFailed ==
  /\ client.kind \in ClientKinds
  /\ ~client.connected
  /\ ~client.reconnecting
  /\ client' = [client EXCEPT
                  !.log = ClientLog("connect", <<>>, <<>>, <<>>, 0,
                                    client.kind /= "src")]
  /\ ServerUnchanged

(* The connection is lost: the server handles the disconnect of the        *)
(* session, and socketio.Client, created with reconnection enabled, starts *)
(* to reconnect.                                                           *)
ConnectionLost ==
  /\ client.connected
  /\ Disconnect(client.sid)
  /\ client' = [client EXCEPT
                  !.connected = FALSE,
                  !.sid = None,
                  !.reconnecting = TRUE,
                  !.inbox = <<>>,
                  !.outbox = <<>>,
                  !.log = ClientLog("on_disconnect", <<>>, <<>>, <<>>, 0,
                                    FALSE)]

(* The library reconnects: a new session. Only the lib class has a connect *)
(* callback, which emits the subscribe event; connect() is not run again.  *)
Reconnected(s) ==
  /\ client.reconnecting
  /\ Connect(s)
  /\ LET sent == IF client.kind = "lib" THEN <<SubscribeEvent(client)>>
                 ELSE <<>>
     IN client' = [client EXCEPT
                     !.connected = TRUE,
                     !.sid = s,
                     !.reconnecting = FALSE,
                     !.outbox = sent,
                     !.log = ClientLog("reconnect", <<>>, <<>>, sent, 0,
                                       FALSE)]

(* The server handles the next event the client emitted. *)
ServerHandles ==
  /\ client.connected
  /\ client.outbox /= <<>>
  /\ LET e == Head(client.outbox) IN
     /\ IF e.event = "subscribe"
        THEN HandleSubscribe(client.sid, e.consumer, e.topics)
        ELSE HandleConsumed(e.consumer, e.topic, e.message_id, e.message)
     /\ client' = [Receive(client, emits') EXCEPT
                     !.outbox = Tail(client.outbox),
                     !.log = ClientLog("sent", <<>>, <<>>, <<>>, 0, FALSE)]
     /\ Len(client'.inbox) <= MaxInbox

(* Variant: consumed is emitted before the handler is called. *)
on_message_ack_first ==
  /\ client.inbox /= <<>>
  /\ \E raises \in BOOLEAN :
       LET data == Head(client.inbox)
           called == client.kind = "lib" /\ data.topic \in client.handlers
           handled == IF called
                      THEN <<[topic |-> data.topic, message |-> data.message]>>
                      ELSE <<>>
           sent == IF client.kind = "lib" THEN <<ConsumedEvent(client, data)>>
                   ELSE <<>>
       IN /\ raises => called
          /\ client' = [client EXCEPT
                          !.inbox = Tail(@),
                          !.outbox = @ \o sent,
                          !.log = ClientLog("on_message", <<data>>, handled,
                                            sent, 0, raises)]
  /\ Len(client'.outbox) <= MaxOutbox
  /\ ServerUnchanged

(* on_message(data): the lib class calls the handler of the topic, if one  *)
(* is registered, and then emits consumed; an exception raised by the      *)
(* handler leaves on_message before the emit. The src and root classes     *)
(* log.                                                                    *)
on_message ==
  /\ client.inbox /= <<>>
  /\ \E raises \in BOOLEAN :
       LET data == Head(client.inbox)
           called == client.kind = "lib" /\ data.topic \in client.handlers
           handled == IF called
                      THEN <<[topic |-> data.topic, message |-> data.message]>>
                      ELSE <<>>
           sent == IF client.kind = "lib" /\ ~raises
                   THEN <<ConsumedEvent(client, data)>>
                   ELSE <<>>
       IN /\ raises => called
          /\ client' = [client EXCEPT
                          !.inbox = Tail(@),
                          !.outbox = @ \o sent,
                          !.log = ClientLog("on_message", <<data>>, handled,
                                            sent, 0, raises)]
  /\ Len(client'.outbox) <= MaxOutbox
  /\ ServerUnchanged

(* What the SDK can be asked to publish. *)
SdkPublishes ==
  {Request(None, "sport", "m2", message, None) :
     message \in {PyStr("hello"), PyInt(0)}}

(* The body of the POST /publish of each class: the src class sends the    *)
(* four fields with its consumer name as producer, the root class topic    *)
(* and message only.                                                       *)
PublishBody(c, topic, message, message_id) ==
  IF c.kind = "src"
  THEN Sent("publish", None, <<>>, topic, message_id, message, c.consumer)
  ELSE Sent("publish", None, <<>>, topic, None, message, None)

(* publish(...): the lib class fails with a TypeError in                   *)
(* PubSubMessage.new, which takes three arguments and is given four.       *)
publish(topic, message, message_id) ==
  /\ client.kind \in ClientKinds
  /\ IF client.kind = "lib"
     THEN /\ client' = [client EXCEPT
                          !.log = ClientLog("publish", <<>>, <<>>, <<>>, 0, TRUE)]
          /\ ServerUnchanged
     ELSE LET body == PublishBody(client, topic, message, message_id) IN
          /\ Publish(body.topic, body.message_id,
                     IF body.message = Absent THEN PyNone ELSE body.message,
                     body.producer)
          /\ client' = [Receive(client, emits') EXCEPT
                          !.log = ClientLog("publish", <<>>, <<>>, <<body>>, 0,
                                            FALSE)]
          /\ Len(client'.inbox) <= MaxInbox

(* Variant: self.sio.disconnect() is called whether connected or not. *)
disconnect_always ==
  /\ client.kind = "src"
  /\ IF client.connected
     THEN /\ Disconnect(client.sid)
          /\ client' = [client EXCEPT
                          !.connected = FALSE,
                          !.sid = None,
                          !.reconnecting = FALSE,
                          !.inbox = <<>>,
                          !.outbox = <<>>,
                          !.log = ClientLog("disconnect", <<>>, <<>>, <<>>, 1,
                                            FALSE)]
     ELSE /\ client' = [client EXCEPT
                          !.log = ClientLog("disconnect", <<>>, <<>>, <<>>, 1,
                                            FALSE)]
          /\ ServerUnchanged

(* disconnect() of the src class: if self.sio.connected:                   *)
(* self.sio.disconnect()                                                   *)
disconnect ==
  /\ client.kind = "src"
  /\ IF client.connected
     THEN /\ Disconnect(client.sid)
          /\ client' = [client EXCEPT
                          !.connected = FALSE,
                          !.sid = None,
                          !.reconnecting = FALSE,
                          !.inbox = <<>>,
                          !.outbox = <<>>,
                          !.log = ClientLog("disconnect", <<>>, <<>>, <<>>, 1,
                                            FALSE)]
     ELSE /\ client' = [client EXCEPT
                          !.log = ClientLog("disconnect", <<>>, <<>>, <<>>, 0,
                                            FALSE)]
          /\ ServerUnchanged

(* Another producer publishes. *)
OtherRequests == {Request(None, "sport", "m1", PyStr("hello"), "bot")}

OtherPublishes ==
  \E q \in OtherRequests :
    /\ Publish(q.topic, q.message_id, q.message, q.producer)
    /\ client' = [Receive(client, emits') EXCEPT !.log = NoLog]
    /\ Len(client'.inbox) <= MaxInbox

ClientNext ==
  \/ /\ Tick
     /\ client' = [client EXCEPT !.log = NoLog]
     /\ UNCHANGED <<tasks, broker>>
  \/ \E topic \in {"sport", "news"} :
       register_handler(topic) /\ UNCHANGED <<tasks, broker>>
  \/ \E s \in Sids : ClientConnected(s) /\ UNCHANGED <<tasks, broker>>
  \/ ClientConnectFailed /\ UNCHANGED <<tasks, broker>>
  \/ ConnectionLost /\ UNCHANGED <<tasks, broker>>
  \/ \E s \in Sids : Reconnected(s) /\ UNCHANGED <<tasks, broker>>
  \/ ServerHandles /\ UNCHANGED <<tasks, broker>>
  \/ on_message /\ UNCHANGED <<tasks, broker>>
  \/ \E q \in SdkPublishes :
       publish(q.topic, q.message, q.message_id) /\ UNCHANGED <<tasks, broker>>
  \/ disconnect /\ UNCHANGED <<tasks, broker>>
  \/ OtherPublishes /\ UNCHANGED <<tasks, broker>>

ClientSpec == ClientInit /\ [][ClientNext]_vars

(***************************************************************************)
(* The server under its cooperative scheduler (async_mode="eventlet"):     *)
(* a handler runs until it reaches an emit, where it may be suspended      *)
(* while other handlers run. The store calls between two emits do not      *)
(* suspend it.                                                             *)
(***************************************************************************)
(* A handler suspended at an emit: the handler, the emit it made last, its *)
(* session, its request, the position of its loop, and for a disconnect    *)
(* the rows it read (client_data) and the rows its DELETE removed.         *)
Task(op, at, sid, q, topics, i, data, deleted) ==
  [op |-> op, at |-> at, sid |-> sid, q |-> q, topics |-> topics, i |-> i,
   data |-> data, deleted |-> deleted]

(* An emit returns, or raises while a failure may still be injected. *)
EmitRaises == IF failures < MaxFaults THEN BOOLEAN ELSE {FALSE}

RaisedOnce(raises) == IF raises THEN 1 ELSE 0

ConcSubscribes ==
  {SubscribeRequest("s1", "alice", <<"sport", "news">>),
   SubscribeRequest("s2", "bob", <<"sport">>)}

ConcPublishes == {Request(None, "sport", "m1", PyStr("hello"), "bot")}

ConcInit ==
  /\ ServerInit
  /\ client = NoClient
  /\ tasks = {}
  /\ broker = Broker(FALSE)

(* handle_subscribe from join_room(topics[i]) to its next emit: new_client *)
(* when the registration is committed, else the confirmation. join_room    *)
(* raises for a session the server has removed. rest: the other suspended  *)
(* handlers.                                                               *)
SubscribeTopic(s, consumer, topics, i, rest) ==
  LET topic == topics[i]
      q == Request(consumer, None, None, Absent, None)
  IN IF s \in closed
     THEN /\ tasks' = rest
          /\ emits' = <<>>
          /\ last' = Last("subscribe", s, q, topics, 500, <<>>)
          /\ UNCHANGED <<subscriptions, messages, consumptions, connected,
                         closed, rooms, now, failures>>
     ELSE \E fault \in Injectable, raises \in EmitRaises :
            LET rms == rooms \cup {<<s, topic>>}
                r == register_subscription(subscriptions, connected,
                                           StrField(s), StrField(consumer),
                                           topic, now, now, fault)
                call == Call("register_subscription", StrField(s),
                             StrField(consumer), topic, None, Absent, None,
                             now, r.ok)
                at == IF r.ok THEN "new_client" ELSE "confirmation"
                ends == ~r.ok /\ i = Len(topics)
            IN /\ failures + Failed(fault) + RaisedOnce(raises) <= MaxFaults
               /\ failures' = failures + Failed(fault) + RaisedOnce(raises)
               /\ Rows(r.subscriptions, messages, consumptions) <= MaxRows
               /\ subscriptions' = r.subscriptions
               /\ rooms' = rms
               /\ emits' = IF raises THEN <<>>
                           ELSE IF r.ok THEN r.emits
                           ELSE <<Confirmation(s, connected, rms, topic, now)>>
               /\ tasks' = IF raises \/ ends THEN rest
                           ELSE rest \cup {Task("subscribe", at, s, q, topics,
                                                i, <<>>, <<>>)}
               /\ last' = Last("subscribe", s, q, topics,
                               IF raises THEN 500 ELSE 0, <<call>>)
               /\ UNCHANGED <<messages, consumptions, connected, closed, now>>

(* The subscribe event of a session arrives: a client sends it once, after *)
(* it has connected.                                                       *)
StartSubscribe(s, consumer, topics) ==
  /\ s \in connected
  /\ topics /= <<>>
  /\ ~\E p \in rooms : p[1] = s
  /\ ~\E t \in tasks : t.op = "subscribe" /\ t.sid = s
  /\ SubscribeTopic(s, consumer, topics, 1, tasks)

(* The handler resumes after new_client and emits the confirmation, or     *)
(* resumes after the confirmation and goes on with the next topic.         *)
ResumeSubscribe(t) ==
  /\ t.op = "subscribe"
  /\ IF t.at = "new_client"
     THEN \E raises \in EmitRaises :
            /\ failures' = failures + RaisedOnce(raises)
            /\ emits' = IF raises THEN <<>>
                        ELSE <<Confirmation(t.sid, connected, rooms,
                                            t.topics[t.i], now)>>
            /\ tasks' = IF raises \/ t.i = Len(t.topics) THEN tasks \ {t}
                        ELSE (tasks \ {t})
                               \cup {[t EXCEPT !.at = "confirmation"]}
            /\ last' = Last("subscribe", t.sid, t.q, t.topics,
                            IF raises THEN 500 ELSE 0, <<>>)
            /\ UNCHANGED <<subscriptions, messages, consumptions, connected,
                           closed, rooms, now>>
     ELSE SubscribeTopic(t.sid, t.q.consumer, t.topics, t.i + 1, tasks \ {t})

(* The handler has ended, normally or not: the server removes the session  *)
(* and its room memberships.                                               *)
SessionRemoved(s) ==
  /\ closed' = closed \cup {s}
  /\ rooms' = {p \in rooms : p[1] /= s}

(* The connection of s is lost: handle_disconnect runs unregister_client   *)
(* up to its first emit. SELECT, DELETE and commit are not separated by an *)
(* emit.                                                                   *)
StartDisconnect(s) ==
  /\ s \in connected
  /\ \E fault \in Injectable, raises \in EmitRaises :
       LET others == connected \ {s}
           r == unregister_client(subscriptions, others, s, fault)
           client_data == IF r.ok THEN ClientData(subscriptions, s) ELSE <<>>
           deleted == SelectSeq(subscriptions,
                                LAMBDA row : \A j \in DOMAIN r.subscriptions :
                                               r.subscriptions[j] /= row)
           call == Call("unregister_client", s, None, None, None, Absent,
                        None, NoTime, r.ok)
       IN /\ failures + Failed(fault) + RaisedOnce(raises) <= MaxFaults
          /\ failures' = failures + Failed(fault) + RaisedOnce(raises)
          /\ r.emits = <<>> => ~raises
          /\ connected' = others
          /\ subscriptions' = r.subscriptions
          /\ last' = Last("disconnect", s, NoRequest, <<>>,
                          IF raises THEN 500 ELSE 0, <<call>>)
          /\ IF r.emits = <<>> \/ raises
             THEN /\ emits' = <<>>
                  /\ SessionRemoved(s)
                  /\ UNCHANGED tasks
             ELSE /\ emits' = <<r.emits[1]>>
                  /\ tasks' = tasks \cup {Task("disconnect",
                                               "client_disconnected", s,
                                               NoRequest, <<>>, 1,
                                               client_data, deleted)}
                  /\ UNCHANGED <<closed, rooms>>
          /\ UNCHANGED <<messages, consumptions, now>>

(* The loop of unregister_client resumes: the next client_disconnected, or *)
(* the end of the handler.                                                 *)
ResumeDisconnect(t) ==
  /\ t.op = "disconnect"
  /\ LET events == DisconnectedEvents(t.data, connected) IN
     IF t.i >= Len(events)
     THEN /\ emits' = <<>>
          /\ tasks' = tasks \ {t}
          /\ SessionRemoved(t.sid)
          /\ last' = Last("disconnect", t.sid, NoRequest, <<>>, 0, <<>>)
          /\ UNCHANGED <<subscriptions, messages, consumptions, connected,
                         now, failures>>
     ELSE \E raises \in EmitRaises :
            /\ failures' = failures + RaisedOnce(raises)
            /\ last' = Last("disconnect", t.sid, NoRequest, <<>>,
                            IF raises THEN 500 ELSE 0, <<>>)
            /\ IF raises
               THEN /\ emits' = <<>>
                    /\ tasks' = tasks \ {t}
                    /\ SessionRemoved(t.sid)
               ELSE /\ emits' = <<events[t.i + 1]>>
                    /\ tasks' = (tasks \ {t}) \cup {[t EXCEPT !.i = t.i + 1]}
                    /\ UNCHANGED <<closed, rooms>>
            /\ UNCHANGED <<subscriptions, messages, consumptions, connected,
                           now>>

(* socketio.emit("message", payload, to=topic), when it is reached. *)
RoomMessage(q) ==
  LET to == PublishTarget(q.topic)
  IN Event("message", to, Recipients(to, connected, rooms), None, q.topic,
           q.message_id, q.message, q.producer, NoTime)

(* POST /publish with a complete body arrives: save_message up to          *)
(* new_message when the insert is committed, else the room emit and the    *)
(* answer. Status 0: not answered yet.                                     *)
StartPublish(q) ==
  /\ PublishValid(q.topic, q.message_id, q.message, q.producer)
  /\ ~\E t \in tasks : t.op = "publish"
  /\ \E fault \in Injectable, raises \in EmitRaises :
       LET r == save_message(messages, connected, q.topic, q.message_id,
                             q.message, q.producer, now, fault)
           call == Call("save_message", None, None, q.topic, q.message_id,
                        q.message, q.producer, now, r.ok)
       IN /\ failures + Failed(fault) + RaisedOnce(raises) <= MaxFaults
          /\ failures' = failures + Failed(fault) + RaisedOnce(raises)
          /\ Rows(subscriptions, r.messages, consumptions) <= MaxRows
          /\ messages' = r.messages
          /\ emits' = IF raises THEN <<>>
                      ELSE IF r.ok THEN r.emits
                      ELSE <<RoomMessage(q)>>
          /\ tasks' = IF raises \/ ~r.ok THEN tasks
                      ELSE tasks \cup {Task("publish", "new_message", None, q,
                                            <<>>, 0, <<>>, <<>>)}
          /\ last' = Last("publish", None, q, <<>>,
                          IF raises THEN 500 ELSE IF r.ok THEN 0 ELSE 200,
                          <<call>>)
          /\ UNCHANGED <<subscriptions, consumptions, connected, closed,
                         rooms, now>>

(* The route resumes after new_message: the room emit, and the answer. *)
ResumePublish(t) ==
  /\ t.op = "publish"
  /\ \E raises \in EmitRaises :
       /\ failures' = failures + RaisedOnce(raises)
       /\ emits' = IF raises THEN <<>> ELSE <<RoomMessage(t.q)>>
       /\ tasks' = tasks \ {t}
       /\ last' = Last("publish", None, t.q, <<>>,
                       IF raises THEN 500 ELSE 200, <<>>)
       /\ UNCHANGED <<subscriptions, messages, consumptions, connected,
                      closed, rooms, now>>

(* A client connects with a session id no handler knows yet. *)
FreshConnect(s) ==
  /\ ~\E t \in tasks : t.sid = s
  /\ Connect(s)
  /\ UNCHANGED tasks

ConcNext ==
  \/ \E s \in Sids : FreshConnect(s) /\ UNCHANGED <<client, broker>>
  \/ \E q \in ConcSubscribes :
       StartSubscribe(q.sid, q.consumer, q.topics) /\ UNCHANGED <<client, broker>>
  \/ \E t \in tasks : ResumeSubscribe(t) /\ UNCHANGED <<client, broker>>
  \/ \E s \in Sids : StartDisconnect(s) /\ UNCHANGED <<client, broker>>
  \/ \E t \in tasks : ResumeDisconnect(t) /\ UNCHANGED <<client, broker>>
  \/ \E q \in ConcPublishes : StartPublish(q) /\ UNCHANGED <<client, broker>>
  \/ \E t \in tasks : ResumePublish(t) /\ UNCHANGED <<client, broker>>

ConcSpec == ConcInit /\ [][ConcNext]_vars

(***************************************************************************)
(* The Broker called directly, as the tests call it: an instance that      *)
(* opens its own connections, or one that was given a test connection.     *)
(***************************************************************************)
OwnConnection == "<own>"
TestConnection == "<test>"

(* self._test_conn *)
TestConnOf(b) == IF b.test_conn THEN TestConnection ELSE None

(* _get_db_connection: the test connection if there is one, else           *)
(* sqlite3.connect(self.db_name), which may raise: conn stays None.        *)
get_db_connection(b, fault) ==
  IF b.test_conn THEN TestConnection
  ELSE IF fault = "connect" THEN None
  ELSE OwnConnection

(* The connection is in use. *)
Opened(b, conn) ==
  [b EXCEPT !.conn = conn,
            !.open = IF conn = OwnConnection THEN @ + 1 ELSE @]

(* conn.close() *)
Close(b, conn) ==
  IF conn = TestConnection THEN [b EXCEPT !.test_open = FALSE]
  ELSE [b EXCEPT !.open = @ - 1]

(* Variant: the connection is closed, whichever it is. *)
close_db_connection_any(b, conn) == Close(b, conn)

(* _close_db_connection: if conn != self._test_conn: conn.close() *)
close_db_connection(b, conn) ==
  IF conn /= TestConnOf(b) THEN Close(b, conn) ELSE b

(* try: conn = self._get_db_connection() ... finally: if conn:             *)
(* self._close_db_connection(conn). The finally clause runs on the         *)
(* success path and on the sqlite3.Error path.                             *)
WithConnection(b, fault) ==
  LET conn == get_db_connection(b, fault)
  IN IF conn /= None THEN close_db_connection(Opened(b, conn), conn)
     ELSE Opened(b, conn)

(* The failures that can strike an operation of this Broker: connecting    *)
(* cannot fail when the connection is given.                               *)
BrokerFaults == IF broker.test_conn THEN Injectable \ {"connect"} ELSE Injectable

BrokerInit ==
  /\ ServerInit
  /\ client = NoClient
  /\ tasks = {}
  /\ broker \in {Broker(FALSE), Broker(TRUE)}

(* What every direct call leaves alone. *)
BrokerFrame == UNCHANGED <<connected, closed, rooms, now, client, tasks>>

(* What every direct call does besides its store operation. *)
Called(op, q, sid, ok, fault) ==
  /\ failures' = failures + Failed(fault)
  /\ broker' = WithConnection(broker, fault)
  /\ last' = Last(op, sid, q, <<>>, 0,
                  <<Call(op, sid, q.consumer, q.topic, q.message_id,
                         q.message, q.producer, now, ok)>>)
  /\ BrokerFrame

CallRegister(sid, consumer, topic) ==
  \E fault \in BrokerFaults :
    LET r == register_subscription(subscriptions, connected, sid, consumer,
                                   topic, now, now, fault)
    IN /\ Rows(r.subscriptions, messages, consumptions) <= MaxRows
       /\ subscriptions' = r.subscriptions
       /\ emits' = r.emits
       /\ Called("register_subscription",
                 Request(consumer, topic, None, Absent, None), sid, r.ok,
                 fault)
       /\ UNCHANGED <<messages, consumptions>>

CallUnregister(sid) ==
  \E fault \in BrokerFaults :
    LET r == unregister_client(subscriptions, connected, sid, fault)
    IN /\ subscriptions' = r.subscriptions
       /\ emits' = r.emits
       /\ Called("unregister_client", NoRequest, sid, r.ok, fault)
       /\ UNCHANGED <<messages, consumptions>>

CallSaveMessage(q) ==
  \E fault \in BrokerFaults :
    LET r == save_message(messages, connected, q.topic, q.message_id,
                          q.message, q.producer, now, fault)
    IN /\ Rows(subscriptions, r.messages, consumptions) <= MaxRows
       /\ messages' = r.messages
       /\ emits' = r.emits
       /\ Called("save_message", q, None, r.ok, fault)
       /\ UNCHANGED <<subscriptions, consumptions>>

CallSaveConsumption(q) ==
  \E fault \in BrokerFaults :
    LET r == save_consumption(consumptions, connected, q.consumer, q.topic,
                              q.message_id, q.message, now, fault)
    IN /\ Rows(subscriptions, messages, r.consumptions) <= MaxRows
       /\ consumptions' = r.consumptions
       /\ emits' = r.emits
       /\ Called("save_consumption", q, None, r.ok, fault)
       /\ UNCHANGED <<subscriptions, messages>>

(* get_clients, get_messages or get_consumptions: there is no commit. *)
CallRead(op) ==
  \E fault \in BrokerFaults \ {"commit"} :
    /\ emits' = <<>>
    /\ Called(op, NoRequest, None, fault = "none", fault)
    /\ UNCHANGED <<subscriptions, messages, consumptions>>

BrokerReads == {"get_clients", "get_messages", "get_consumptions"}

BrokerNext ==
  \/ \E sid \in Sids, topic \in {"sport", "news"} :
       CallRegister(sid, "alice", topic)
  \/ \E sid \in Sids : CallUnregister(sid)
  \/ \E message_id \in {"m1", "m2"} :
       CallSaveMessage(Request(None, "sport", message_id, PyStr("hello"),
                               "bot"))
  \/ CallSaveConsumption(Request("alice", "sport", "m1", PyStr("hello"), None))
  \/ \E op \in BrokerReads : CallRead(op)

BrokerSpec == BrokerInit /\ [][BrokerNext]_vars

(***************************************************************************)
(* Properties.                                                             *)
(***************************************************************************)
(* The sessions in the room of a topic. *)
Members(topic) == {s \in connected : <<s, topic>> \in rooms}

Emitted == {emits[i] : i \in DOMAIN emits}

(* The last handler was an accepted POST /publish. *)
Published == last.op = "publish" /\ last.status = 200

(* ... and its insert was committed. *)
PublishStored == Published /\ last.calls[1].ok

(* What GET /messages returns now. *)
ListMessages == get_messages(messages, "none")

EntriesOf(message_id) ==
  {i \in DOMAIN ListMessages : ListMessages[i].message_id = message_id}

(* C1, as stated: a publish to topic T notifies only the sessions in T's   *)
(* room; neither its new_message nor its message event reaches another    *)
(* session or is sent as a global broadcast.                               *)
C1_OnlySubscribersNotified ==
  Published =>
    \A e \in Emitted :
      e.event \in {"new_message", "message"} =>
        /\ e.to /= Broadcast
        /\ e.recipients \subseteq Members(last.topic)

(* C1, amended: the message event of a publish to T is delivered to        *)
(* exactly the sessions in T's room, and the new_message notification of   *)
(* the stored message is broadcast to every connected session.             *)
C1_MessageEventRoomScoped ==
  Published =>
    /\ \E i \in DOMAIN emits : emits[i].event = "message"
    /\ \A e \in Emitted :
         /\ e.event = "message" =>
              /\ e.to = last.topic
              /\ e.recipients = Members(last.topic)
         /\ e.event = "new_message" =>
              /\ e.to = Broadcast
              /\ e.recipients = connected

(* A stored publish while one connected session is in the room and another *)
(* is not.                                                                 *)
C1_Witness ==
  /\ PublishStored
  /\ Len(emits) = 2
  /\ \E s, u \in connected :
       s \in Members(last.topic) /\ u \notin Members(last.topic)

(* C2, as stated: a subscriber receives the message event of a publish     *)
(* only for a message_id that listMessages() contains at that moment.      *)
C2_MessageEventOnlyForStored ==
  Published =>
    \A e \in Emitted :
      (e.event = "message" /\ e.recipients /= {}) =>
        EntriesOf(e.message_id) /= {}

(* C3, as stated: after an accepted publish, with no storage failure       *)
(* injected, listMessages() holds exactly one entry with the message_id,   *)
(* whose topic, payload and producer are the published ones.               *)
C3_PublishedIsListed ==
  (Published /\ failures = 0) =>
    /\ Cardinality(EntriesOf(last.message_id)) = 1
    /\ \A i \in EntriesOf(last.message_id) :
         /\ ListMessages[i].topic = last.topic
         /\ ListMessages[i].message = last.message
         /\ ListMessages[i].producer = last.producer

(* C3, amended: after a publish whose insert was committed (the message_id *)
(* was not stored before, the store did not fail), listMessages() holds    *)
(* exactly one entry with the message_id, and its topic, payload and       *)
(* producer are the published ones.                                        *)
C3_StoredIsListed ==
  PublishStored =>
    /\ Cardinality(EntriesOf(last.message_id)) = 1
    /\ \A i \in EntriesOf(last.message_id) :
         /\ ListMessages[i].topic = last.topic
         /\ ListMessages[i].message = last.message
         /\ ListMessages[i].producer = last.producer

(* A structured payload stored next to another message. *)
C3_Witness ==
  /\ PublishStored
  /\ last.message.kind = "dict"
  /\ Len(ListMessages) = 2

(* C4: no two entries of listMessages() have the same message_id. *)
C4_MessageIdUnique ==
  \A i, j \in DOMAIN ListMessages :
    ListMessages[i].message_id = ListMessages[j].message_id => i = j

(* A publish of a message_id that is already stored, refused by the store. *)
C4_Witness ==
  /\ Published
  /\ ~last.calls[1].ok
  /\ failures = 0
  /\ EntriesOf(last.message_id) /= {}

(* The Subscription rows of a session, and those of a (session, topic). *)
RowsOfSession(subs, sid) == SelectSeq(subs, LAMBDA r : r.sid = sid)

RowsOfOthers(subs, sid) == SelectSeq(subs, LAMBDA r : r.sid /= sid)

RowsOfPair(subs, sid, topic) ==
  {i \in DOMAIN subs : subs[i].sid = sid /\ subs[i].topic = topic}

EventsNamed(es, event) == SelectSeq(es, LAMBDA e : e.event = event)

(* C5: the table holds at most one row per (session, topic), and after a   *)
(* committed registerSubscription(session, consumer, topic) the one row of *)
(* the pair carries the consumer and the connected_at of the latest such   *)
(* call.                                                                   *)
C5_OneRowPerSessionTopic ==
  /\ \A i, j \in DOMAIN subscriptions :
       (/\ subscriptions[i].sid = subscriptions[j].sid
        /\ subscriptions[i].topic = subscriptions[j].topic) => i = j
  /\ last.op = "subscribe" =>
       \A i \in DOMAIN last.calls :
         LET c == last.calls[i]
             latest == \A j \in DOMAIN last.calls :
                         (j > i /\ last.calls[j].topic = c.topic)
                           => ~last.calls[j].ok
         IN (c.ok /\ latest) =>
              /\ Cardinality(RowsOfPair(subscriptions, c.sid, c.topic)) = 1
              /\ \A k \in RowsOfPair(subscriptions, c.sid, c.topic) :
                   /\ subscriptions[k].consumer = c.consumer
                   /\ subscriptions[k].connected_at = c.t

(* Two committed registrations of the same (session, topic), the second at *)
(* a later time.                                                           *)
C5_Witness ==
  /\ last.op = "subscribe"
  /\ Len(last.calls) = 2
  /\ last.calls[1].ok /\ last.calls[2].ok
  /\ last.calls[1].topic = last.calls[2].topic
  /\ last.calls[1].t < last.calls[2].t

(* The step is handle_disconnect and its unregisterSession is committed. *)
Unregistered == last'.op = "disconnect" /\ last'.calls[1].ok

(* C6: a committed unregisterSession of a session with N rows removes      *)
(* exactly those N rows and emits exactly N client_disconnected events,    *)
(* the i-th carrying the consumer and the topic of the i-th removed row.   *)
C6_UnregisterRemovesAndAnnounces ==
  [][Unregistered =>
       LET removed == RowsOfSession(subscriptions, last'.sid)
       IN /\ subscriptions' = RowsOfOthers(subscriptions, last'.sid)
          /\ Len(emits') = Len(removed)
          /\ \A i \in DOMAIN removed :
               /\ emits'[i].event = "client_disconnected"
               /\ emits'[i].consumer = removed[i].consumer
               /\ emits'[i].topic = removed[i].topic]_vars

(* The disconnect of a session that held two subscriptions. *)
C6_Witness ==
  /\ last.op = "disconnect"
  /\ last.calls[1].ok
  /\ Len(emits) = 2
  /\ emits[1].topic /= emits[2].topic

(* unregisterSession applied to the store of the current state, and again  *)
(* to its result.                                                          *)
UnregisterOnce(sid) == unregister_client(subscriptions, connected, sid, "none")

UnregisterTwice(sid) ==
  unregister_client(UnregisterOnce(sid).subscriptions, connected, sid, "none")

(* C7: unregisterSession of a session without subscriptions changes no     *)
(* store state and emits nothing, in handle_disconnect and in a direct     *)
(* call; a second call in a row changes nothing and emits nothing.         *)
C7_UnregisterIdempotent ==
  /\ [](\A sid \in Sids :
          /\ RowsOfSession(subscriptions, sid) = <<>> =>
               /\ UnregisterOnce(sid).subscriptions = subscriptions
               /\ UnregisterOnce(sid).emits = <<>>
          /\ UnregisterTwice(sid).subscriptions
               = UnregisterOnce(sid).subscriptions
          /\ UnregisterTwice(sid).emits = <<>>)
  /\ [][(Unregistered /\ RowsOfSession(subscriptions, last'.sid) = <<>>) =>
          /\ subscriptions' = subscriptions
          /\ messages' = messages
          /\ consumptions' = consumptions
          /\ emits' = <<>>]_vars

(* The disconnect of a session without subscriptions while another session *)
(* holds one.                                                              *)
C7_Witness ==
  /\ last.op = "disconnect"
  /\ last.calls[1].ok
  /\ emits = <<>>
  /\ subscriptions /= <<>>

(* C8: once the disconnect of session S has been handled and its           *)
(* unregisterSession committed, the table holds no row of S; as long as no *)
(* store operation has failed, no disconnected session has a row.          *)
C8_NoRowAfterDisconnect ==
  /\ (last.op = "disconnect" /\ last.calls[1].ok) =>
       RowsOfSession(subscriptions, last.sid) = <<>>
  /\ failures = 0 =>
       \A sid \in closed : RowsOfSession(subscriptions, sid) = <<>>

(* s1 subscribed to sport and news, then disconnected: no row is left. *)
C8_Witness ==
  /\ last.op = "disconnect"
  /\ last.sid = "s1"
  /\ Len(emits) = 2
  /\ get_clients(subscriptions, "none") = <<>>

(* The Broker calls of the step that failed in the store, and those that  *)
(* were committed.                                                         *)
FailedCalls(op) ==
  {i \in DOMAIN last'.calls : last'.calls[i].op = op /\ ~last'.calls[i].ok}

CommittedCalls(op) ==
  {i \in DOMAIN last'.calls : last'.calls[i].op = op /\ last'.calls[i].ok}

(* The rows of a session for the topics none of its committed calls names. *)
RowsNotRegistered(subs, sid) ==
  SelectSeq(subs, LAMBDA r :
    r.sid = sid /\ \A i \in CommittedCalls("register_subscription") :
                     last'.calls[i].topic /= r.topic)

(* C9: when the store operation of a write fails, the operation returns to *)
(* the handler, which goes on (the confirmation of each topic is sent, the *)
(* publish is answered 200); the table is as it was before the call, and   *)
(* the lifecycle notification of the failed call is not emitted.           *)
C9_FailedWriteChangesNothing ==
  [][/\ FailedCalls("register_subscription") /= {} =>
          /\ Len(EventsNamed(emits', "message")) = Len(last'.topics)
          /\ Len(EventsNamed(emits', "new_client"))
               = Cardinality(CommittedCalls("register_subscription"))
          /\ RowsOfOthers(subscriptions', last'.sid)
               = RowsOfOthers(subscriptions, last'.sid)
          /\ RowsNotRegistered(subscriptions', last'.sid)
               = RowsNotRegistered(subscriptions, last'.sid)
     /\ FailedCalls("unregister_client") /= {} =>
          /\ subscriptions' = subscriptions
          /\ emits' = <<>>
     /\ FailedCalls("save_message") /= {} =>
          /\ last'.status = 200
          /\ messages' = messages
          /\ EventsNamed(emits', "new_message") = <<>>
     /\ FailedCalls("save_consumption") /= {} =>
          /\ consumptions' = consumptions
          /\ emits' = <<>>]_vars

(* A registration that failed while the table held a row. *)
C9_Witness ==
  /\ last.op = "subscribe"
  /\ \E i \in DOMAIN last.calls : ~last.calls[i].ok
  /\ failures = 1
  /\ subscriptions /= <<>>

(* A body of POST /publish without one of the four fields. *)
FieldOmitted ==
  \/ last'.topic = None
  \/ last'.message_id = None
  \/ last'.message = PyNone
  \/ last'.producer = None

(* C10: POST /publish without topic, message_id, message or producer is    *)
(* answered 400, calls no Broker operation, emits nothing and leaves the   *)
(* three tables as they were.                                              *)
C10_MissingFieldRejected ==
  [][(last'.op = "publish" /\ FieldOmitted) =>
       /\ last'.status = 400
       /\ last'.calls = <<>>
       /\ emits' = <<>>
       /\ subscriptions' = subscriptions
       /\ messages' = messages
       /\ consumptions' = consumptions]_vars

(* A publish without message_id refused while a message is stored. *)
C10_Witness ==
  /\ last.op = "publish"
  /\ last.message_id = None
  /\ last.status = 400
  /\ messages /= <<>>

(* The body of the last POST /publish holds all four fields. *)
FieldsPresent ==
  /\ last.topic /= None
  /\ last.message_id /= None
  /\ last.message /= PyNone
  /\ last.producer /= None

(* C11, as stated: a POST /publish whose body holds all four fields,       *)
(* whatever their values, calls Broker.publish once with those values and  *)
(* is answered 200.                                                        *)
C11_PresentFieldsAccepted ==
  (last.op = "publish" /\ FieldsPresent) =>
    /\ last.status = 200
    /\ Len(last.calls) = 1
    /\ last.calls[1].op = "save_message"
    /\ last.calls[1].topic = last.topic
    /\ last.calls[1].message_id = last.message_id
    /\ last.calls[1].message = last.message
    /\ last.calls[1].producer = last.producer

CommittedUpTo(calls, i) ==
  Cardinality({j \in 1..i : calls[j].ok})

(* The events sent by the server itself as subscription confirmations. *)
IsConfirmation(e) == e.event = "message" /\ e.producer = "server"

(* C13: a subscribe event {consumer, topics: [t1..tk]} on session S joins  *)
(* S to each topic's room, registers (S, consumer, topic) once per topic   *)
(* in list order, and after each registration sends one confirmation       *)
(* {topic, message_id, message: "Subscribed to <topic>", producer:         *)
(* "server"} to S alone: k registrations, k confirmations, and no other    *)
(* session receives a confirmation.                                        *)
C13_SubscribePerTopic ==
  [][last'.op = "subscribe" =>
       LET k == Len(last'.topics)
           S == last'.sid
           calls == last'.calls
       IN /\ rooms' = rooms \cup {<<S, last'.topics[i]>> : i \in 1..k}
          /\ Len(calls) = k
          /\ Len(emits') = k + CommittedUpTo(calls, k)
          /\ \A i \in 1..k :
               /\ calls[i].op = "register_subscription"
               /\ calls[i].sid = S
               /\ calls[i].consumer = last'.consumer
               /\ calls[i].topic = last'.topics[i]
               /\ LET e == emits'[i + CommittedUpTo(calls, i)]
                  IN /\ IsConfirmation(e)
                     /\ e.to = S
                     /\ e.recipients = {S}
                     /\ e.topic = last'.topics[i]
                     /\ e.message
                          = PyStr("Subscribed to " \o last'.topics[i])
                     /\ e.message_id /= None
                     /\ <<S, e.topic>> \in rooms'
          /\ Cardinality({n \in DOMAIN emits' : IsConfirmation(emits'[n])})
               = k]_vars

(* A subscription to two topics while another session is connected and    *)
(* is a member of the first topic's room.                                  *)
C13_Witness ==
  /\ last.op = "subscribe"
  /\ Len(last.topics) = 2
  /\ \E s \in connected \ {last.sid} : <<s, last.topics[1]>> \in rooms

(* The fields of a consumed event, after the step that handled it: all     *)
(* four are present and truthy.                                            *)
ConsumedComplete ==
  /\ TruthyField(last'.consumer)
  /\ TruthyField(last'.topic)
  /\ TruthyField(last'.message_id)
  /\ Truthy(last'.message)

(* C14: a consumed event with a missing or falsy consumer, topic,          *)
(* message_id or message is dropped, with no Consumption row created and   *)
(* no new_consumption emitted; otherwise Broker.save_consumption is        *)
(* called exactly once for the event.                                      *)
C14_IncompleteConsumedDropped ==
  [][last'.op = "consumed" =>
       IF ConsumedComplete
       THEN /\ Len(last'.calls) = 1
            /\ last'.calls[1].op = "save_consumption"
            /\ last'.calls[1].consumer = last'.consumer
            /\ last'.calls[1].topic = last'.topic
            /\ last'.calls[1].message_id = last'.message_id
       ELSE /\ last'.calls = <<>>
            /\ consumptions' = consumptions
            /\ emits' = <<>>]_vars

(* A consumed event whose payload is the number zero, handled while a      *)
(* consumption is stored.                                                  *)
C14_Witness ==
  /\ last.op = "consumed"
  /\ last.message = PyInt(0)
  /\ TruthyField(last.consumer)
  /\ consumptions /= <<>>

(* The entries of get_consumptions() for one message_id. *)
ConsumptionsOf(cons, message_id) ==
  SelectSeq(get_consumptions(cons, "none"),
            LAMBDA e : e.message_id = message_id)

(* The consumers named by a sequence of entries. *)
ConsumersOf(entries) == {entries[i].consumer : i \in DOMAIN entries}

(* C15: every committed save_consumption call adds exactly one row and     *)
(* leaves the rows of earlier calls as they were, so M calls for one       *)
(* message_id by M distinct consumers are M entries of get_consumptions(): *)
(* nothing is overwritten or deduplicated.                                 *)
C15_ConsumptionPerCall ==
  [][(last'.op = "consumed" /\ last'.calls /= <<>> /\ last'.calls[1].ok) =>
       LET c == last'.calls[1] IN
       /\ Len(consumptions') = Len(consumptions) + 1
       /\ SubSeq(consumptions', 1, Len(consumptions)) = consumptions
       /\ consumptions'[Len(consumptions')].consumer = c.consumer
       /\ consumptions'[Len(consumptions')].message_id = c.message_id
       /\ Len(ConsumptionsOf(consumptions', c.message_id))
            = Len(ConsumptionsOf(consumptions, c.message_id)) + 1
       /\ ConsumersOf(ConsumptionsOf(consumptions', c.message_id))
            = ConsumersOf(ConsumptionsOf(consumptions, c.message_id))
                \cup {c.consumer}]_vars

(* Two consumers have consumed the same message_id: two entries. *)
C15_Witness ==
  /\ last.op = "consumed"
  /\ last.calls /= <<>>
  /\ last.calls[1].ok
  /\ Len(ConsumptionsOf(consumptions, last.message_id)) = 2
  /\ Cardinality(ConsumersOf(ConsumptionsOf(consumptions, last.message_id)))
       = 2

(* What a save_consumption call whose store operations succeed does in the *)
(* current state, for every complete consumed event.                       *)
SaveConsumptionUnconditional ==
  \A q \in ConsumedRequests :
    ConsumedValid(q.consumer, q.topic, q.message_id, q.message) =>
      LET r == save_consumption(consumptions, connected, q.consumer, q.topic,
                                q.message_id, StrVal(q.message), now, "none")
      IN /\ r.ok
         /\ Len(r.consumptions) = Len(consumptions) + 1
         /\ Len(r.emits) = 1

(* C16: save_consumption validates nothing: for any consumer, topic,       *)
(* message_id and payload, also a message_id never published and a         *)
(* consumer never subscribed, a call whose transaction is committed adds   *)
(* one row and broadcasts one new_consumption {consumer, topic,            *)
(* message_id, message, timestamp} to every connected session.             *)
C16_ConsumptionUnvalidated ==
  /\ []SaveConsumptionUnconditional
  /\ [][(last'.op = "consumed" /\ last'.calls /= <<>> /\ last'.calls[1].ok) =>
          LET c == last'.calls[1]
              row == consumptions'[Len(consumptions')]
          IN /\ Len(consumptions') = Len(consumptions) + 1
             /\ row.consumer = c.consumer
             /\ row.topic = c.topic
             /\ row.message_id = c.message_id
             /\ Len(emits') = 1
             /\ emits'[1].event = "new_consumption"
             /\ emits'[1].to = Broadcast
             /\ emits'[1].recipients = connected
             /\ emits'[1].consumer = c.consumer
             /\ emits'[1].topic = c.topic
             /\ emits'[1].message_id = c.message_id
             /\ emits'[1].message = c.message
             /\ emits'[1].timestamp = row.timestamp]_vars

(* A consumption is recorded and announced to two sessions although no     *)
(* message was ever stored and no subscription ever registered.            *)
C16_Witness ==
  /\ last.op = "consumed"
  /\ last.calls /= <<>>
  /\ last.calls[1].ok
  /\ messages = <<>>
  /\ subscriptions = <<>>
  /\ closed = {}
  /\ Cardinality(connected) = 2
  /\ Len(emits) = 1

(* The rows of a table before a step are its first rows after the step. *)
Extends(after, before) ==
  /\ Len(before) <= Len(after)
  /\ SubSeq(after, 1, Len(before)) = before

(* C17: messages and consumptions are append-only: no step of the server   *)
(* (publish, subscribe, consumed, disconnect, a failed write) removes or   *)
(* changes a stored message or consumption row.                            *)
C17_AppendOnly ==
  [][/\ Extends(messages', messages)
     /\ Extends(consumptions', consumptions)]_vars

(* A session was unregistered, and a write has failed, while a message and *)
(* a consumption are stored.                                               *)
C17_Witness ==
  /\ last.op = "disconnect"
  /\ failures > 0
  /\ Len(messages) = 1
  /\ Len(consumptions) = 1

(* No entry of the sequence is older than an entry that follows it. *)
NewestFirst(entries) ==
  \A i, j \in DOMAIN entries :
    i < j => entries[i].timestamp >= entries[j].timestamp

(* C18: get_messages() and get_consumptions() return their rows newest     *)
(* first: an entry's timestamp is greater than or equal to the timestamp   *)
(* of every entry after it, after any sequence of publishes and            *)
(* consumptions.                                                           *)
C18_ListsNewestFirst ==
  /\ NewestFirst(get_messages(messages, "none"))
  /\ NewestFirst(get_consumptions(consumptions, "none"))

(* Two rows stored at different times are listed in the reverse of the     *)
(* order they were stored in.                                              *)
C18_Witness ==
  \/ /\ Len(messages) = 2
     /\ messages[1].timestamp < messages[2].timestamp
     /\ get_messages(messages, "none")[1].message_id = messages[2].message_id
  \/ /\ Len(consumptions) = 2
     /\ consumptions[1].timestamp < consumptions[2].timestamp
     /\ get_consumptions(consumptions, "none")[1].consumer
          = consumptions[2].consumer
     /\ consumptions[1].consumer /= consumptions[2].consumer

(* C19: every committed register_subscription call, a first subscription   *)
(* or a re-subscription, broadcasts exactly one new_client {consumer,      *)
(* topic, connected_at} to every connected session, member of the topic's  *)
(* room or not.                                                            *)
C19_NewClientPerRegistration ==
  [][last'.op = "subscribe" =>
       LET calls == last'.calls IN
       /\ Len(EventsNamed(emits', "new_client"))
            = CommittedUpTo(calls, Len(calls))
       /\ \A i \in DOMAIN calls :
            calls[i].ok =>
              LET e == emits'[i + CommittedUpTo(calls, i) - 1]
              IN /\ e.event = "new_client"
                 /\ e.to = Broadcast
                 /\ e.recipients = connected
                 /\ e.consumer = calls[i].consumer
                 /\ e.topic = calls[i].topic
                 /\ e.timestamp /= NoTime
                 /\ e.timestamp >= calls[i].t]_vars

(* A session subscribes twice to one topic, both registrations committed,  *)
(* while a session that is not in the topic's room is connected: two       *)
(* new_client broadcasts.                                                  *)
C19_Witness ==
  /\ last.op = "subscribe"
  /\ Len(last.topics) = 2
  /\ last.topics[1] = last.topics[2]
  /\ \A i \in DOMAIN last.calls : last.calls[i].ok
  /\ \E s \in connected \ {last.sid} : <<s, last.topics[1]>> \notin rooms
  /\ Len(EventsNamed(emits, "new_client")) = 2

(* The read routes, and the table each one lists. *)
ReadRoutes == {"clients", "messages", "consumptions"}

TableOf(route) ==
  CASE route = "clients" -> subscriptions
    [] route = "messages" -> messages
    [] route = "consumptions" -> consumptions

(* C20: when the store fails during a read, get_clients(), get_messages()  *)
(* and get_consumptions() each return an empty sequence and the route      *)
(* answers with it instead of failing, and the store is unchanged; on an   *)
(* empty store all three return the empty sequence.                        *)
C20_FailedReadIsEmpty ==
  [][last'.op \in ReadRoutes =>
       LET c == last'.calls[1] IN
       /\ last'.status = 200
       /\ Len(last'.calls) = 1
       /\ ~c.ok => c.result = <<>>
       /\ TableOf(last'.op) = <<>> => c.result = <<>>
       /\ c.ok => Len(c.result) = Len(TableOf(last'.op))
       /\ subscriptions' = subscriptions
       /\ messages' = messages
       /\ consumptions' = consumptions
       /\ emits' = <<>>]_vars

(* The store failed while the subscribers were read, with a subscription   *)
(* and a message stored.                                                   *)
C20_Witness ==
  /\ last.op = "clients"
  /\ ~last.calls[1].ok
  /\ last.calls[1].result = <<>>
  /\ subscriptions /= <<>>
  /\ messages /= <<>>

(* C21: no backlog replay and no delivery after disconnect: the message    *)
(* event of a publish to topic T goes to the sessions that are in T's room *)
(* when the publish is handled and is emitted by no later step, so a       *)
(* session that subscribes to T afterwards receives only its               *)
(* confirmations; and no event reaches a session whose disconnect was      *)
(* handled.                                                                *)
C21_NoReplayNoDeliveryAfterDisconnect ==
  [][\A n \in DOMAIN emits' :
       LET e == emits'[n] IN
       /\ e.recipients \subseteq connected'
       /\ e.recipients \cap closed' = {}
       /\ e.event = "message" =>
            \/ /\ last'.op = "subscribe"
               /\ IsConfirmation(e)
               /\ e.recipients = {last'.sid}
            \/ /\ last'.op = "publish"
               /\ e.topic = last'.topic
               /\ e.message_id = last'.message_id
               /\ e.message = last'.message
               /\ e.recipients = Members(e.topic)]_vars

(* A session subscribes to a topic for which a message is stored, after    *)
(* another session was disconnected: it receives its confirmation only.    *)
C21_Witness ==
  /\ last.op = "subscribe"
  /\ closed /= {}
  /\ \E i \in DOMAIN messages, j \in DOMAIN last.topics :
       messages[i].topic = last.topics[j]
  /\ \A n \in DOMAIN emits :
       emits[n].event = "message" => IsConfirmation(emits[n])
  /\ \E n \in DOMAIN emits : emits[n].event = "message"

(* C28, as stated: a connected session is a member of a topic's room if    *)
(* and only if the table holds a row for the session and the topic, also   *)
(* after a registration that failed in the store.                          *)
C28_RoomsMatchRows ==
  /\ \A p \in rooms :
       p[1] \in connected =>
         \E i \in DOMAIN subscriptions :
           subscriptions[i].sid = p[1] /\ subscriptions[i].topic = p[2]
  /\ \A i \in DOMAIN subscriptions :
       subscriptions[i].sid \in connected =>
         <<subscriptions[i].sid, subscriptions[i].topic>> \in rooms

(***************************************************************************)
(* Properties of the PubSubClient classes (ClientSpec).                    *)
(***************************************************************************)
(* The last step of the client was the on_message callback of the class    *)
(* that keeps handlers.                                                    *)
Dispatched == client.kind = "lib" /\ client.log.op = "on_message"

(* C22, as stated: on a delivered message for a topic with a registered    *)
(* handler the SDK invokes that handler exactly once with the payload; for *)
(* a topic without a handler no handler is invoked and the message is      *)
(* dropped, not acknowledged as processed.                                 *)
C22_DispatchOrDrop ==
  Dispatched =>
    LET data == client.log.received[1] IN
    IF data.topic \in client.handlers
    THEN client.log.handled
           = <<[topic |-> data.topic, message |-> data.message]>>
    ELSE /\ client.log.handled = <<>>
         /\ client.log.sent = <<>>

(* The last step of the client ended a connection attempt: connect() or    *)
(* start(), or a reconnection of the library.                              *)
ConnectionMade ==
  client.log.op \in {"connect", "reconnect"} /\ client.connected

ConnectionFailed == client.log.op = "connect" /\ ~client.connected

(* C23, as stated: after every successful connection of a client, an       *)
(* automatic reconnection included, the client emits one subscribe event   *)
(* with its consumer name and its full topic list; after a failed attempt  *)
(* it emits none and no exception reaches the caller.                      *)
C23_SubscribeOnEveryConnection ==
  /\ ConnectionMade => client.log.sent = <<SubscribeEvent(client)>>
  /\ ConnectionFailed => client.log.sent = <<>> /\ ~client.log.raised

(* The stored messages with a message_id. *)
StoredWithId(message_id) ==
  {i \in DOMAIN messages : messages[i].message_id = message_id}

(* C24, as stated: a publish through the SDK with a topic, a payload and a *)
(* message_id sends a request with the four required fields and the        *)
(* client's consumer name as producer, so that the server accepts it       *)
(* (never a 400) and the stored message has that producer.                 *)
C24_SdkPublishAccepted ==
  client.log.op = "publish" =>
    /\ ~client.log.raised
    /\ Len(client.log.sent) = 1
    /\ LET body == client.log.sent[1] IN
       /\ body.topic /= None
       /\ body.message_id /= None
       /\ body.message /= Absent
       /\ body.producer = client.consumer
       /\ last.op = "publish"
       /\ last.status = 200
       /\ last.calls[1].ok =>
            \A i \in StoredWithId(body.message_id) :
              messages[i].producer = client.consumer

(* C25: disconnect() closes the transport only when the client is          *)
(* connected: called while connected it calls sio.disconnect() once, and   *)
(* the session is closed; called while not connected, or a second time, it *)
(* does nothing.                                                           *)
C25_DisconnectOnlyWhenConnected ==
  [][client'.log.op = "disconnect" =>
       IF client.connected
       THEN /\ client'.log.disconnects = 1
            /\ ~client'.connected
            /\ connected' = connected \ {client.sid}
            /\ closed' = closed \cup {client.sid}
       ELSE /\ client'.log.disconnects = 0
            /\ ~client'.connected
            /\ ~client'.log.raised
            /\ UNCHANGED <<connected, closed, subscriptions, rooms, emits>>]_vars

(* disconnect() was called again after it had closed the session. *)
C25_Witness ==
  /\ client.log.op = "disconnect"
  /\ client.log.disconnects = 0
  /\ ~client.connected
  /\ ~client.reconnecting
  /\ closed /= {}

(* The (consumer, topic) pairs of a list of subscription rows. *)
Pairs(rows) == [i \in DOMAIN rows |-> <<rows[i].consumer, rows[i].topic>>]

(* The suspended disconnect handlers. *)
Disconnecting == {t \in tasks : t.op = "disconnect"}

(* C26: under any interleaving of the disconnect handler of a session with *)
(* a subscribe handler of the same session, the pairs announced by         *)
(* client_disconnected are the rows the unregister deleted: the rows read  *)
(* are the rows deleted, each emit of the loop announces the next deleted  *)
(* row, and the handler ends normally only when every deleted row has been *)
(* announced; an unregister that announces nothing has deleted nothing.    *)
C26_AnnouncedAreDeleted ==
  /\ [](\A t \in Disconnecting :
          /\ Pairs(t.data) = Pairs(t.deleted)
          /\ t.i \in 1..Len(t.deleted)
          /\ \A j \in DOMAIN subscriptions :
               subscriptions[j] \notin {t.deleted[k] : k \in 1..Len(t.deleted)}
          /\ (last.op = "disconnect" /\ last.sid = t.sid) =>
               /\ Len(emits) = 1
               /\ emits[1].event = "client_disconnected"
               /\ <<emits[1].consumer, emits[1].topic>> = Pairs(t.deleted)[t.i])
  /\ [][/\ \A t \in Disconnecting :
             (t \notin tasks' /\ last'.status = 0) =>
               \/ t.i = Len(t.deleted) /\ Disconnecting' = Disconnecting \ {t}
               \/ /\ t.i < Len(t.deleted)
                  /\ [t EXCEPT !.i = t.i + 1] \in tasks'
        /\ (/\ last'.op = "disconnect"
            /\ last'.calls /= <<>>
            /\ last'.status = 0
            /\ Disconnecting' = Disconnecting) =>
             subscriptions' = subscriptions]_vars

(* The unregister of s1 has deleted a row and is suspended at its emit,    *)
(* and the suspended subscribe handler of s1 has since registered the next *)
(* topic.                                                                  *)
C26_Witness ==
  \E t \in Disconnecting :
    /\ t.sid = "s1"
    /\ Len(t.deleted) = 1
    /\ \E u \in tasks : u.op = "subscribe" /\ u.sid = "s1" /\ u.i = 2
    /\ \E j \in DOMAIN subscriptions : subscriptions[j].sid = "s1"

(* C27, as stated: once the disconnect of a session has been handled, no   *)
(* Subscription row of that session exists, whatever the interleaving of   *)
(* its subscribe handler with its disconnect handler (no store operation   *)
(* and no emit having failed).                                             *)
C27_NoRowOfHandledSession ==
  failures = 0 =>
    \A j \in DOMAIN subscriptions : subscriptions[j].sid \notin closed

(* The last step made the room emit of a publish and answered 200. *)
RoomEmitDone == last.op = "publish" /\ last.status = 200

(* C29: a session that joined the room of topic T before a publish to T    *)
(* makes its room emit, and has not disconnected, receives the message     *)
(* event of that publish, with the topic, message_id, message and producer *)
(* that were published.                                                    *)
C29_SubscribedBeforeEmitReceives ==
  RoomEmitDone =>
    \E i \in DOMAIN emits :
      /\ emits[i].event = "message"
      /\ emits[i].topic = last.topic
      /\ emits[i].message_id = last.message_id
      /\ emits[i].message = last.message
      /\ emits[i].producer = last.producer
      /\ Members(last.topic) \subseteq emits[i].recipients

(* The route was suspended at new_message and has now made its room emit,  *)
(* while the subscribe handler of s1 is suspended after joining sport: s1  *)
(* received the message.                                                   *)
C29_Witness ==
  /\ RoomEmitDone
  /\ last.calls = <<>>
  /\ \E t \in tasks : t.op = "subscribe" /\ t.sid = "s1" /\ t.i = 1
  /\ "s1" \in Members(last.topic)
  /\ "s1" \in emits[1].recipients

(* The step was ended by an emit that raised. *)
EmitFailed == last'.status = 500 /\ emits' = <<>> /\ failures' = failures + 1

(* The rows an unregister deleted and did not try to announce, when its    *)
(* loop was ended by this step.                                            *)
NeverAnnounced ==
  IF last'.calls /= <<>>
  THEN Len(subscriptions) - Len(subscriptions') - 1
  ELSE LET t == CHOOSE t \in Disconnecting : t.sid = last'.sid
       IN Len(t.deleted) - (t.i + 1)

(* C30, as stated: a failed emit blocks neither persistence nor the other  *)
(* notifications: the change committed before the emit stays in the store, *)
(* and in an unregister that removed several rows the client_disconnected  *)
(* of every remaining row is still emitted.                                *)
C30_FailedEmitBlocksNothing ==
  [][EmitFailed =>
       /\ (last'.calls /= <<>> /\ last'.calls[1].ok) =>
            CASE last'.op = "publish" ->
                   \E j \in DOMAIN messages' :
                     messages'[j].message_id = last'.message_id
              [] last'.op = "subscribe" ->
                   \E j \in DOMAIN subscriptions' :
                     /\ subscriptions'[j].sid = last'.sid
                     /\ subscriptions'[j].topic = last'.calls[1].topic
              [] last'.op = "disconnect" ->
                   \A j \in DOMAIN subscriptions' :
                     subscriptions'[j].sid /= last'.sid
              [] OTHER -> TRUE
       /\ last'.op = "disconnect" => NeverAnnounced <= 0]_vars

(* The new_client announcing the i-th registration of the last subscribe   *)
(* handler, which was committed.                                           *)
NewClientOf(i) == emits[i + CommittedUpTo(last.calls, i) - 1]

(* The i-th registration is the last one of the handler for its topic. *)
LastForTopic(i) ==
  \A k \in (i + 1)..Len(last.calls) : last.calls[k].topic /= last.calls[i].topic

(* C31, as stated: the connected_at carried by a new_client notification   *)
(* is the connected_at stored in the Subscription row of that session and  *)
(* topic, the value GET /clients returns for it.                           *)
C31_NewClientCarriesStoredTime ==
  last.op = "subscribe" =>
    \A i \in DOMAIN last.calls :
      (last.calls[i].ok /\ LastForTopic(i)) =>
        \E j \in DOMAIN subscriptions :
          /\ subscriptions[j].sid = last.calls[i].sid
          /\ subscriptions[j].topic = last.calls[i].topic
          /\ get_clients(subscriptions, "none")[j].connected_at
               = NewClientOf(i).timestamp

(* The last handler was a consumed event whose insert was committed. *)
ConsumptionStored ==
  last.op = "consumed" /\ last.calls /= <<>> /\ last.calls[1].ok

(* What GET /consumptions returns now. *)
ListConsumptions == get_consumptions(consumptions, "none")

C33_ConsumptionsReferToMessages ==
  failures = 0 =>
    \A j \in DOMAIN consumptions :
      /\ EntriesOf(consumptions[j].message_id) /= {}
      /\ consumptions[j].topic \in client.handlers

(* The last step of the lib client was on_message. *)
LibHandledMessage == client.kind = "lib" /\ client.log.op = "on_message"

(* C34: the SDK emits consumed for a received message event only after the *)
(* handler of its topic has returned, and then exactly once, for that      *)
(* message; when the handler raises, no consumed is emitted for it.        *)
C34_AckAfterHandler ==
  LibHandledMessage =>
    LET data == client.log.received[1]
        called == <<[topic |-> data.topic, message |-> data.message]>>
    IN /\ Len(client.log.received) = 1
       /\ client.log.handled =
            (IF data.topic \in client.handlers THEN called ELSE <<>>)
       /\ IF client.log.raised
          THEN /\ client.log.handled = called
               /\ client.log.sent = <<>>
          ELSE /\ client.log.sent = <<ConsumedEvent(client, data)>>
               /\ client.log.sent[1].event = "consumed"
               /\ client.log.sent[1].topic = data.topic
               /\ client.log.sent[1].message_id = data.message_id
               /\ client.log.sent[1].message = data.message

(* The handler of a published message raised: nothing was emitted. *)
C34_Witness ==
  /\ LibHandledMessage
  /\ client.log.raised
  /\ client.log.received[1].producer = "bot"
  /\ client.log.handled /= <<>>
  /\ client.log.sent = <<>>

(* C35, as stated: every subscription confirmation carries a freshly       *)
(* minted message_id: the confirmations of one subscribe event carry       *)
(* pairwise different message_ids.                                         *)
C35_ConfirmationIdsFresh ==
  last.op = "subscribe" =>
    \A i, j \in DOMAIN emits :
      (i /= j /\ IsConfirmation(emits[i]) /\ IsConfirmation(emits[j])) =>
        emits[i].message_id /= emits[j].message_id

(* C36, as stated: the payload stored in the Consumption row recorded      *)
(* through a consumed event, as GET /consumptions returns it, equals the   *)
(* payload the consumer reported in that event.                            *)
C36_ConsumptionKeepsPayload ==
  ConsumptionStored =>
    \E i \in DOMAIN ListConsumptions :
      /\ ListConsumptions[i].consumer = last.consumer
      /\ ListConsumptions[i].message_id = last.message_id
      /\ ListConsumptions[i].message = last.message

(* The rows other than those of session s for one of the topics. *)
RowsOffKeys(subs, s, topics) ==
  SelectSeq(subs, LAMBDA r : ~(r.sid = s
                               /\ \E i \in DOMAIN topics : topics[i] = r.topic))

(* C37: the frame of each write operation. A disconnect of S leaves the    *)
(* rows of every other session as they were, also those of a consumer S    *)
(* had; a subscribe of S to topics changes no row other than those of      *)
(* (S, topic); neither touches messages or consumptions; a publish changes *)
(* neither subscriptions nor consumptions; a consumed event changes        *)
(* neither subscriptions nor messages.                                     *)
C37_WriteFrames ==
  [][/\ last'.op = "disconnect" =>
          /\ RowsOfOthers(subscriptions', last'.sid)
               = RowsOfOthers(subscriptions, last'.sid)
          /\ UNCHANGED <<messages, consumptions>>
     /\ last'.op = "subscribe" =>
          /\ RowsOffKeys(subscriptions', last'.sid, last'.topics)
               = RowsOffKeys(subscriptions, last'.sid, last'.topics)
          /\ UNCHANGED <<messages, consumptions>>
     /\ last'.op = "publish" => UNCHANGED <<subscriptions, consumptions>>
     /\ last'.op = "consumed" => UNCHANGED <<subscriptions, messages>>]_vars

(* The session of bob was disconnected and its row removed, while the row  *)
(* bob holds through another session is still there.                       *)
C37_Witness ==
  /\ last.op = "disconnect"
  /\ last.calls[1].ok
  /\ \E i \in DOMAIN emits :
       emits[i].event = "client_disconnected" /\ emits[i].consumer = "bob"
  /\ \E j \in DOMAIN subscriptions :
       subscriptions[j].consumer = "bob" /\ subscriptions[j].sid /= last.sid

(* The registrations a store holds: (session, topic, consumer). *)
Registered(subs) ==
  {<<subs[i].sid, subs[i].topic, subs[i].consumer>> : i \in DOMAIN subs}

(* The registrations after the committed calls of the last handler: a      *)
(* committed registration of (S, T) by c replaces what was registered for  *)
(* (S, T); a committed unregister of S removes every registration of S.    *)
RegisteredAfter(regs, l) ==
  LET done == {i \in DOMAIN l.calls : l.calls[i].ok}
  IN CASE l.op = "subscribe" ->
            {x \in regs :
               ~\E i \in done : x[1] = l.calls[i].sid
                                /\ x[2] = l.calls[i].topic}
              \cup {<<l.calls[i].sid, l.calls[i].topic, l.calls[i].consumer>> :
                      i \in done}
       [] l.op = "disconnect" ->
            IF done = {} THEN regs ELSE {x \in regs : x[1] /= l.sid}
       [] OTHER -> regs

(* C38: after any sequence of committed registerSubscription and           *)
(* unregisterSession calls the store holds one row for each (session,      *)
(* topic) registered since the last unregister of that session, and no     *)
(* other row, with the consumer of the latest registration of the pair;    *)
(* GET /clients returns one entry per row, with the consumer and topic of  *)
(* the row. Stated as a refinement: the store starts empty and every       *)
(* handler changes the registrations as its committed calls say.           *)
C38_StoreIsRegistrations ==
  /\ [](/\ \A i, j \in DOMAIN subscriptions :
             (/\ subscriptions[i].sid = subscriptions[j].sid
              /\ subscriptions[i].topic = subscriptions[j].topic) => i = j
        /\ Len(get_clients(subscriptions, "none")) = Len(subscriptions)
        /\ \A i \in DOMAIN subscriptions :
             /\ get_clients(subscriptions, "none")[i].consumer
                  = subscriptions[i].consumer
             /\ get_clients(subscriptions, "none")[i].topic
                  = subscriptions[i].topic)
  /\ [][Registered(subscriptions')
          = RegisteredAfter(Registered(subscriptions), last')]_vars

(* Session s1 registered sport twice as bob in one subscribe event: the    *)
(* pair has one row, next to the row another session holds for bob.        *)
C38_Witness ==
  /\ last.op = "subscribe"
  /\ last.sid = "s1"
  /\ last.consumer = "bob"
  /\ \A i \in DOMAIN last.calls : last.calls[i].ok
  /\ Len(subscriptions) = 2
  /\ Registered(subscriptions)
       = {<<"s1", "sport", "bob">>, <<"s2", "sport", "bob">>}

(* C39: when a Broker operation has returned, every connection the Broker  *)
(* opened itself is closed, on the success path and on the storage-error   *)
(* path alike, and a connection given at construction is the one every     *)
(* operation used and is still open.                                       *)
C39_ConnectionsClosed ==
  /\ broker.open = 0
  /\ broker.test_conn =>
       /\ broker.test_open
       /\ last.op /= "init" => broker.conn = TestConnection
  /\ (~broker.test_conn /\ last.op /= "init") =>
       /\ broker.conn \in {OwnConnection, None}
       /\ broker.conn = None => ~last.calls[1].ok

(* A write of a Broker without test connection failed after it had         *)
(* connected: the connection it opened is closed.                          *)
C39_Witness ==
  /\ ~broker.test_conn
  /\ last.op = "unregister_client"
  /\ ~last.calls[1].ok
  /\ broker.conn = OwnConnection
  /\ broker.open = 0

====
